---- MODULE Spec2Model ----
(***************************************************************************)
(* Protected options: the position orchestrator (ProtectedOptionManager),  *)
(* the valuation engine (OptionsCalculator), the stop-loss engine          *)
(* (StopLossProtection), one Chainlink price feed and two ERC20 tokens.    *)
(*                                                                         *)
(* Every external call is one atomic step (one EVM transaction): a call    *)
(* that reverts changes nothing.  For each entry point, <name>Err is the   *)
(* error the call reverts with in the current state ("" when it succeeds). *)
(*                                                                         *)
(* Units.  Prices are the feed's 8-decimal integers; token amounts are     *)
(* base units.  The premium is counted in units of 1e15, so that the       *)
(* divisor 1e18 of the premium formula is WAD = 1000 premium units.        *)
(***************************************************************************)
EXTENDS Integers, Sequences, FiniteSets, TLC

VARIABLES
    now,                    \* block.timestamp
    oraclePrice,            \* the feed's _latestPrice (int256)
    oracleUpdatedAt,        \* the feed's _latestTimestamp
    balances,               \* ERC20 balances: token -> account -> amount
    allowances,             \* ERC20 allowances granted to the orchestrator
    protectedOptions,       \* ProtectedOptionManager.protectedOptions
    userOptions,            \* ProtectedOptionManager.userOptions
    executedOptions,        \* ids with executedOptions[id] = true
    protectedOptionCounter, \* ProtectedOptionManager.protectedOptionCounter
    optionConfigs,          \* OptionsCalculator.optionConfigs
    calcAuthorized,         \* OptionsCalculator.authorizedCallers
    stopLossConfigs,        \* StopLossProtection.stopLossConfigs
    slAuthorized,           \* StopLossProtection.authorizedCallers
    cancelledEvents,        \* ProtectedOptionCancelled events: id -> reason
    extraData,              \* the payload (bytes extraData) handed to the adapter
    frame                   \* the nonReentrant call of the orchestrator in progress

vars == <<now, oraclePrice, oracleUpdatedAt, balances, allowances,
          protectedOptions, userOptions, executedOptions,
          protectedOptionCounter, optionConfigs, calcAuthorized,
          stopLossConfigs, slAuthorized, extraData, frame,
          cancelledEvents>>

managerVars == <<protectedOptions, userOptions, executedOptions,
                 protectedOptionCounter, cancelledEvents>>
engineVars == <<optionConfigs, calcAuthorized, stopLossConfigs, slAuthorized>>
oracleVars == <<oraclePrice, oracleUpdatedAt>>
tokenVars == <<balances, allowances>>

(***************************************************************************)
(* Bounds of the model.                                                    *)
(***************************************************************************)
MaxPositions == 2
MaxTime == 3600
MaxEngineTime == 3601
MaxAdminPositions == 1

(***************************************************************************)
(* Program constants.                                                      *)
(***************************************************************************)
MIN_OPTION_DURATION == 3600
MAX_OPTION_DURATION == 2592000
CALC_MAX_PRICE_AGE == 3600
MIN_INTRINSIC_VALUE == 1000000
WAD == 1000
MAX_MULTIPLIER == 100
DEFAULT_MULTIPLIER == 1
SL_MAX_PRICE_AGE == 300
MIN_TIME_WINDOW == 60
MAX_LOSS_BP == 9000
BASIS_POINTS == 10000
DEFAULT_TIME_WINDOW == 3600

(***************************************************************************)
(* Addresses.                                                              *)
(***************************************************************************)
NULL == "0x0"
OWNER == "owner"
MANAGER == "manager"
ORACLE == "oracle"
ADAPTER == "integration"
Users == {"alice", "bob"}
Tokens == {"TK1", "TK2"}
Accounts == Users \cup {OWNER, MANAGER}

(***************************************************************************)
(* Results of calls: err = "" when the call returns val, and the name of   *)
(* the error it reverts with otherwise.                                    *)
(***************************************************************************)
Ret(v) == [err |-> "", val |-> v]
Revert(e) == [err |-> e, val |-> 0]

(***************************************************************************)
(* Identifiers: keccak256 is collision free on the packed fields, so an id *)
(* is the tuple of the fields hashed.                                      *)
(***************************************************************************)
NoId == <<>>
\* A faulty variant of the id derivation, which the properties must reject:
\* the counter is left out of the hash.
ProtectedOptionId_NoCounter(sender, timestamp, counter) == <<sender, timestamp, 0>>

ProtectedOptionId(sender, timestamp, counter) == <<sender, timestamp, counter>>
OptionIdOf(protectedOptionId) == <<protectedOptionId, "option">>
StopLossIdOf(protectedOptionId) == <<protectedOptionId, "stoploss">>

(***************************************************************************)
(* The price feed (AggregatorV3Interface.latestRoundData).                 *)
(***************************************************************************)
latestRoundData == [answer |-> oraclePrice, updatedAt |-> oracleUpdatedAt]

(***************************************************************************)
(* ERC20 tokens as the orchestrator uses them through SafeERC20.           *)
(***************************************************************************)
safeTransferFromErr(bal, allow, token, from, amount) ==
    IF allow[token][from] < amount THEN "ERC20InsufficientAllowance"
    ELSE IF bal[token][from] < amount THEN "ERC20InsufficientBalance"
    ELSE ""

safeTransferErr(bal, token, amount) ==
    IF bal[token][MANAGER] < amount THEN "ERC20InsufficientBalance" ELSE ""

Moved(bal, token, from, to, amount) ==
    [bal EXCEPT ![token] =
        [acct \in Accounts |->
            bal[token][acct]
              - (IF acct = from THEN amount ELSE 0)
              + (IF acct = to THEN amount ELSE 0)]]

Spent(allow, token, from, amount) ==
    [allow EXCEPT ![token][from] = @ - amount]

(***************************************************************************)
(* OptionsCalculator.                                                      *)
(***************************************************************************)
ZeroOptionParams ==
    [isCall |-> FALSE, strikePrice |-> 0, premium |-> 0, expiration |-> 0,
     oracle |-> NULL, multiplier |-> 0, isActive |-> FALSE]

OptionConfig(optionId) ==
    IF optionId \in DOMAIN optionConfigs THEN optionConfigs[optionId]
    ELSE ZeroOptionParams

\* A faulty variant of onlyAuthorized, which the properties must reject: the
\* owner passes only while listed.
Calc_onlyAuthorized_ListOnly(sender) == sender \in calcAuthorized

Calc_onlyAuthorized(sender) == sender \in calcAuthorized \/ sender = OWNER

\* onlyOwner (Ownable): the owner is the deployer throughout.
setAuthorizedCallerErr(sender) ==
    IF sender # OWNER THEN "OwnableUnauthorizedAccount" ELSE ""

deactivateOptionErr(sender) ==
    IF ~Calc_onlyAuthorized(sender) THEN "UnauthorizedCaller" ELSE ""

setOptionConfigErr(sender, strikePrice, expiration, oracle, multiplier) ==
    IF ~Calc_onlyAuthorized(sender) THEN "UnauthorizedCaller"
    ELSE IF ~(strikePrice > 0) THEN "Invalid strike price"
    ELSE IF ~(multiplier > 0 /\ multiplier <= MAX_MULTIPLIER) THEN "Invalid multiplier"
    ELSE IF ~(expiration > now) THEN "Invalid expiration"
    ELSE IF ~(oracle # NULL) THEN "Invalid oracle"
    ELSE ""

\* A faulty variant of _getCurrentPrice, which the properties must reject: a
\* price exactly MAX_PRICE_AGE old is already stale.
Calc_getCurrentPrice_NonStrict(oracle) ==
    IF oracle # ORACLE THEN Revert("NotAContract")
    ELSE IF now < latestRoundData.updatedAt THEN Revert("Panic")
    ELSE IF now - latestRoundData.updatedAt >= CALC_MAX_PRICE_AGE THEN Revert("StalePrice")
    ELSE IF ~(latestRoundData.answer > 0) THEN Revert("Invalid price")
    ELSE Ret(latestRoundData.answer)

Calc_getCurrentPrice(oracle) ==
    IF oracle # ORACLE THEN Revert("NotAContract")
    ELSE IF now < latestRoundData.updatedAt THEN Revert("Panic")
    ELSE IF now - latestRoundData.updatedAt > CALC_MAX_PRICE_AGE THEN Revert("StalePrice")
    ELSE IF ~(latestRoundData.answer > 0) THEN Revert("Invalid price")
    ELSE Ret(latestRoundData.answer)

calculateIntrinsicValue(option, currentPrice) ==
    IF option.isCall
    THEN IF currentPrice > option.strikePrice
         THEN currentPrice - option.strikePrice ELSE 0
    ELSE IF option.strikePrice > currentPrice
         THEN option.strikePrice - currentPrice ELSE 0

\* A faulty variant of isInTheMoney, which the properties must reject: an
\* intrinsic value equal to MIN_INTRINSIC_VALUE already counts.
isInTheMoney_NonStrict(optionId) ==
    LET option == OptionConfig(optionId)
        price == Calc_getCurrentPrice(option.oracle)
    IN  IF ~option.isActive THEN Revert("InvalidOptionConfig")
        ELSE IF price.err # "" THEN price
        ELSE Ret(calculateIntrinsicValue(option, price.val) >= MIN_INTRINSIC_VALUE)

isInTheMoney(optionId) ==
    LET option == OptionConfig(optionId)
        price == Calc_getCurrentPrice(option.oracle)
    IN  IF ~option.isActive THEN Revert("InvalidOptionConfig")
        ELSE IF price.err # "" THEN price
        ELSE Ret(calculateIntrinsicValue(option, price.val) > MIN_INTRINSIC_VALUE)

\* A faulty variant of getMakingAmount, which the properties must reject: the
\* payoff leaves the multiplier out.
getMakingAmount_NoMultiplier(sender, optionId, takingAmount) ==
    LET option == OptionConfig(optionId)
        price == Calc_getCurrentPrice(option.oracle)
        intrinsicValue == calculateIntrinsicValue(option, price.val)
    IN  IF ~Calc_onlyAuthorized(sender) THEN Revert("UnauthorizedCaller")
        ELSE IF ~option.isActive THEN Revert("InvalidOptionConfig")
        ELSE IF now >= option.expiration THEN Revert("OptionExpired")
        ELSE IF price.err # "" THEN price
        ELSE IF intrinsicValue > MIN_INTRINSIC_VALUE
             THEN Ret((takingAmount * intrinsicValue)
                        \div (option.strikePrice * 100))
             ELSE Ret((takingAmount * option.premium) \div WAD)

getMakingAmount(sender, optionId, takingAmount) ==
    LET option == OptionConfig(optionId)
        price == Calc_getCurrentPrice(option.oracle)
        intrinsicValue == calculateIntrinsicValue(option, price.val)
    IN  IF ~Calc_onlyAuthorized(sender) THEN Revert("UnauthorizedCaller")
        ELSE IF ~option.isActive THEN Revert("InvalidOptionConfig")
        ELSE IF now >= option.expiration THEN Revert("OptionExpired")
        ELSE IF price.err # "" THEN price
        ELSE IF intrinsicValue > MIN_INTRINSIC_VALUE
             THEN Ret((takingAmount * intrinsicValue * option.multiplier)
                        \div (option.strikePrice * 100))
             ELSE Ret((takingAmount * option.premium) \div WAD)

getTakingAmount(sender, optionId, makingAmount) ==
    LET option == OptionConfig(optionId)
        price == Calc_getCurrentPrice(option.oracle)
        intrinsicValue == calculateIntrinsicValue(option, price.val)
    IN  IF ~Calc_onlyAuthorized(sender) THEN Revert("UnauthorizedCaller")
        ELSE IF ~option.isActive THEN Revert("InvalidOptionConfig")
        ELSE IF now >= option.expiration THEN Revert("OptionExpired")
        ELSE IF price.err # "" THEN price
        ELSE IF intrinsicValue > MIN_INTRINSIC_VALUE
             THEN Ret((makingAmount * option.strikePrice * 100)
                        \div (intrinsicValue * option.multiplier))
             ELSE IF option.premium = 0 THEN Revert("Panic")
             ELSE Ret((makingAmount * WAD) \div option.premium)

\* getIntrinsicValue: the pair (intrinsicValue, currentPrice).
getIntrinsicValue(optionId) ==
    LET option == OptionConfig(optionId)
        price == Calc_getCurrentPrice(option.oracle)
    IN  IF ~option.isActive THEN Revert("InvalidOptionConfig")
        ELSE IF price.err # "" THEN price
        ELSE Ret(<<calculateIntrinsicValue(option, price.val), price.val>>)

(***************************************************************************)
(* StopLossProtection.                                                     *)
(***************************************************************************)
ZeroStopLossConfig ==
    [stopLossPrice |-> 0, maxLoss |-> 0, timeWindow |-> 0, oracle |-> NULL,
     isActive |-> FALSE, isLowerBound |-> FALSE, createdAt |-> 0]

StopLossConfig(stopLossId) ==
    IF stopLossId \in DOMAIN stopLossConfigs THEN stopLossConfigs[stopLossId]
    ELSE ZeroStopLossConfig

SL_onlyAuthorized(sender) == sender \in slAuthorized \/ sender = OWNER

deactivateStopLossErr(sender) ==
    IF ~SL_onlyAuthorized(sender) THEN "UnauthorizedCaller" ELSE ""

configureStopLossErr(sender, stopLossPrice, maxLoss, timeWindow, oracle) ==
    IF ~SL_onlyAuthorized(sender) THEN "UnauthorizedCaller"
    ELSE IF stopLossPrice = 0 THEN "InvalidStopLossConfig"
    ELSE IF maxLoss = 0 \/ maxLoss > MAX_LOSS_BP THEN "InvalidMaxLoss"
    ELSE IF timeWindow < MIN_TIME_WINDOW THEN "InvalidTimeWindow"
    ELSE IF oracle = NULL THEN "InvalidStopLossConfig"
    ELSE ""

SL_getCurrentPrice(oracle) ==
    IF oracle # ORACLE THEN Revert("NotAContract")
    ELSE IF now < latestRoundData.updatedAt THEN Revert("Panic")
    ELSE IF now - latestRoundData.updatedAt > SL_MAX_PRICE_AGE THEN Revert("StalePrice")
    ELSE IF ~(latestRoundData.answer > 0) THEN Revert("Invalid price")
    ELSE Ret(latestRoundData.answer)

\* Faulty variants of stopLossPredicate, which the properties must reject: one
\* reads the price before looking at isActive, one treats a price equal to the
\* threshold as safe.
stopLossPredicate_PriceFirst(stopLossId) ==
    LET config == StopLossConfig(stopLossId)
        price == SL_getCurrentPrice(config.oracle)
    IN  IF price.err # "" THEN price
        ELSE IF ~config.isActive THEN Ret(TRUE)
        ELSE IF config.isLowerBound
             THEN Ret(price.val > config.stopLossPrice)
             ELSE Ret(price.val < config.stopLossPrice)

stopLossPredicate_NonStrict(stopLossId) ==
    LET config == StopLossConfig(stopLossId)
        price == SL_getCurrentPrice(config.oracle)
    IN  IF ~config.isActive THEN Ret(TRUE)
        ELSE IF price.err # "" THEN price
        ELSE IF config.isLowerBound
             THEN Ret(price.val >= config.stopLossPrice)
             ELSE Ret(price.val <= config.stopLossPrice)

stopLossPredicate(stopLossId) ==
    LET config == StopLossConfig(stopLossId)
        price == SL_getCurrentPrice(config.oracle)
    IN  IF ~config.isActive THEN Ret(TRUE)
        ELSE IF price.err # "" THEN price
        ELSE IF config.isLowerBound
             THEN Ret(price.val > config.stopLossPrice)
             ELSE Ret(price.val < config.stopLossPrice)

\* The two loops of multiStopLossPredicate over the ids in order: each id is
\* asked through an external call, whose failure propagates.
RECURSIVE multiStopLossPredicateAll(_)
multiStopLossPredicateAll(stopLossIds) ==
    IF stopLossIds = <<>> THEN Ret(TRUE)
    ELSE IF stopLossPredicate(Head(stopLossIds)).err # ""
         THEN stopLossPredicate(Head(stopLossIds))
    ELSE IF ~stopLossPredicate(Head(stopLossIds)).val THEN Ret(FALSE)
    ELSE multiStopLossPredicateAll(Tail(stopLossIds))

RECURSIVE multiStopLossPredicateAny(_)
multiStopLossPredicateAny(stopLossIds) ==
    IF stopLossIds = <<>> THEN Ret(FALSE)
    ELSE IF stopLossPredicate(Head(stopLossIds)).err # ""
         THEN stopLossPredicate(Head(stopLossIds))
    ELSE IF stopLossPredicate(Head(stopLossIds)).val THEN Ret(TRUE)
    ELSE multiStopLossPredicateAny(Tail(stopLossIds))

\* A faulty variant of multiStopLossPredicate, which the properties must
\* reject: it asks every id before it decides.
multiStopLossPredicate_Eager(stopLossIds, requireAll) ==
    LET failing == {i \in 1..Len(stopLossIds) :
                      stopLossPredicate(stopLossIds[i]).err # ""}
    IN  IF Len(stopLossIds) = 0 THEN Ret(TRUE)
        ELSE IF failing # {}
             THEN stopLossPredicate(
                      stopLossIds[CHOOSE i \in failing :
                                      \A j \in failing : i <= j])
        ELSE IF requireAll THEN multiStopLossPredicateAll(stopLossIds)
        ELSE multiStopLossPredicateAny(stopLossIds)

multiStopLossPredicate(stopLossIds, requireAll) ==
    IF Len(stopLossIds) = 0 THEN Ret(TRUE)
    ELSE IF requireAll THEN multiStopLossPredicateAll(stopLossIds)
    ELSE multiStopLossPredicateAny(stopLossIds)

\* calculateDynamicStopLoss and getPriceInfo carry no modifier: msg.sender is
\* not looked at.
\* A faulty variant of calculateDynamicStopLoss, which the properties must
\* reject: the loss is subtracted for an upper bound too.
calculateDynamicStopLoss_AlwaysSubtract(sender, stopLossId, currentEntryPrice) ==
    LET config == StopLossConfig(stopLossId)
        loss == (currentEntryPrice * config.maxLoss) \div BASIS_POINTS
    IN  IF ~config.isActive THEN Revert("StopLossNotActive")
        ELSE IF loss > currentEntryPrice THEN Revert("Panic")
        ELSE Ret(currentEntryPrice - loss)

\* The subtraction is checked arithmetic: a loss above the entry price would
\* revert with Panic.
calculateDynamicStopLoss(sender, stopLossId, currentEntryPrice) ==
    LET config == StopLossConfig(stopLossId)
        loss == (currentEntryPrice * config.maxLoss) \div BASIS_POINTS
    IN  IF ~config.isActive THEN Revert("StopLossNotActive")
        ELSE IF config.isLowerBound
             THEN IF loss > currentEntryPrice THEN Revert("Panic")
                  ELSE Ret(currentEntryPrice - loss)
             ELSE Ret(currentEntryPrice + loss)

\* getPriceInfo: the pair (price, priceAge), without a staleness test.
getPriceInfo(sender, stopLossId) ==
    LET config == StopLossConfig(stopLossId)
    IN  IF ~config.isActive THEN Revert("StopLossNotActive")
        ELSE IF config.oracle # ORACLE THEN Revert("NotAContract")
        ELSE IF ~(latestRoundData.answer > 0) THEN Revert("Invalid price")
        ELSE IF now < latestRoundData.updatedAt THEN Revert("Panic")
        ELSE Ret(<<latestRoundData.answer, now - latestRoundData.updatedAt>>)

\* A faulty variant of checkStopLoss, which the properties must reject: a
\* price equal to the threshold does not trigger.
checkStopLoss_Strict(sender, stopLossId) ==
    LET config == StopLossConfig(stopLossId)
        price == SL_getCurrentPrice(config.oracle)
    IN  IF ~SL_onlyAuthorized(sender) THEN Revert("UnauthorizedCaller")
        ELSE IF ~config.isActive THEN Revert("StopLossNotActive")
        ELSE IF price.err # "" THEN price
        ELSE IF config.isLowerBound
             THEN Ret(price.val < config.stopLossPrice)
             ELSE Ret(price.val > config.stopLossPrice)

checkStopLoss(sender, stopLossId) ==
    LET config == StopLossConfig(stopLossId)
        price == SL_getCurrentPrice(config.oracle)
    IN  IF ~SL_onlyAuthorized(sender) THEN Revert("UnauthorizedCaller")
        ELSE IF ~config.isActive THEN Revert("StopLossNotActive")
        ELSE IF price.err # "" THEN price
        ELSE IF config.isLowerBound
             THEN Ret(price.val <= config.stopLossPrice)
             ELSE Ret(price.val >= config.stopLossPrice)

(***************************************************************************)
(* ProtectedOptionManager.                                                 *)
(***************************************************************************)
ZeroProtectedOption ==
    [optionId |-> NoId, stopLossId |-> NoId, maker |-> NULL,
     makerAsset |-> NULL, takerAsset |-> NULL, makingAmount |-> 0,
     minTakingAmount |-> 0, createdAt |-> 0, expiresAt |-> 0,
     isActive |-> FALSE, isCall |-> FALSE]

ProtectedOption(id) ==
    IF id \in DOMAIN protectedOptions THEN protectedOptions[id]
    ELSE ZeroProtectedOption

\* Faulty variants of createProtectedOptionErr, which the properties must
\* reject: one accepts zero amounts, one accepts any duration.
createProtectedOptionErr_NoAmountCheck(sender, a) ==
    LET expiresAt == now + a.optionDuration
        calcErr == setOptionConfigErr(MANAGER, a.strikePrice, expiresAt,
                                      a.oracle, DEFAULT_MULTIPLIER)
        slErr == configureStopLossErr(MANAGER, a.stopLossPrice, a.maxLoss,
                                      DEFAULT_TIME_WINDOW, a.oracle)
    IN  IF a.optionDuration < MIN_OPTION_DURATION
           \/ a.optionDuration > MAX_OPTION_DURATION THEN "InvalidOptionDuration"
        ELSE IF a.makerAsset = NULL \/ a.takerAsset = NULL THEN "InvalidConfiguration"
        ELSE IF calcErr # "" THEN calcErr
        ELSE IF slErr # "" THEN slErr
        ELSE safeTransferFromErr(balances, allowances, a.makerAsset, sender,
                                 a.makingAmount)

createProtectedOptionErr_NoDurationCheck(sender, a) ==
    LET expiresAt == now + a.optionDuration
        calcErr == setOptionConfigErr(MANAGER, a.strikePrice, expiresAt,
                                      a.oracle, DEFAULT_MULTIPLIER)
        slErr == configureStopLossErr(MANAGER, a.stopLossPrice, a.maxLoss,
                                      DEFAULT_TIME_WINDOW, a.oracle)
    IN  IF a.makingAmount = 0 \/ a.minTakingAmount = 0 THEN "InsufficientAmount"
        ELSE IF a.makerAsset = NULL \/ a.takerAsset = NULL THEN "InvalidConfiguration"
        ELSE IF calcErr # "" THEN calcErr
        ELSE IF slErr # "" THEN slErr
        ELSE safeTransferFromErr(balances, allowances, a.makerAsset, sender,
                                 a.makingAmount)

\* createProtectedOption: "" when it succeeds, else the error it reverts with.
createProtectedOptionErr(sender, a) ==
    LET expiresAt == now + a.optionDuration
        calcErr == setOptionConfigErr(MANAGER, a.strikePrice, expiresAt,
                                      a.oracle, DEFAULT_MULTIPLIER)
        slErr == configureStopLossErr(MANAGER, a.stopLossPrice, a.maxLoss,
                                      DEFAULT_TIME_WINDOW, a.oracle)
    IN  IF a.optionDuration < MIN_OPTION_DURATION
           \/ a.optionDuration > MAX_OPTION_DURATION THEN "InvalidOptionDuration"
        ELSE IF a.makingAmount = 0 \/ a.minTakingAmount = 0 THEN "InsufficientAmount"
        ELSE IF a.makerAsset = NULL \/ a.takerAsset = NULL THEN "InvalidConfiguration"
        ELSE IF calcErr # "" THEN calcErr
        ELSE IF slErr # "" THEN slErr
        ELSE safeTransferFromErr(balances, allowances, a.makerAsset, sender,
                                 a.makingAmount)

\* A faulty variant of createProtectedOption, which the properties must
\* reject: it gives a call an upper-bound stop-loss and a put a lower-bound one.
createProtectedOption_UpperBound(sender, a) ==
    LET err == createProtectedOptionErr(sender, a)
        protectedOptionId == ProtectedOptionId(sender, now, protectedOptionCounter)
        optionId == OptionIdOf(protectedOptionId)
        stopLossId == StopLossIdOf(protectedOptionId)
        expiresAt == now + a.optionDuration
    IN  /\ protectedOptionCounter < MaxPositions
        /\ IF err = ""
           THEN /\ protectedOptionCounter' = protectedOptionCounter + 1
                /\ optionConfigs' =
                     (optionId :> [isCall |-> a.isCall,
                                   strikePrice |-> a.strikePrice,
                                   premium |-> a.premium,
                                   expiration |-> expiresAt,
                                   oracle |-> a.oracle,
                                   multiplier |-> DEFAULT_MULTIPLIER,
                                   isActive |-> TRUE]) @@ optionConfigs
                /\ stopLossConfigs' =
                     (stopLossId :> [stopLossPrice |-> a.stopLossPrice,
                                     maxLoss |-> a.maxLoss,
                                     timeWindow |-> DEFAULT_TIME_WINDOW,
                                     oracle |-> a.oracle,
                                     isActive |-> TRUE,
                                     isLowerBound |-> ~a.isCall,
                                     createdAt |-> now]) @@ stopLossConfigs
                /\ protectedOptions' =
                     (protectedOptionId :>
                        [optionId |-> optionId,
                         stopLossId |-> stopLossId,
                         maker |-> sender,
                         makerAsset |-> a.makerAsset,
                         takerAsset |-> a.takerAsset,
                         makingAmount |-> a.makingAmount,
                         minTakingAmount |-> a.minTakingAmount,
                         createdAt |-> now,
                         expiresAt |-> expiresAt,
                         isActive |-> TRUE,
                         isCall |-> a.isCall]) @@ protectedOptions
                /\ userOptions' =
                     [userOptions EXCEPT ![sender] = Append(@, protectedOptionId)]
                /\ balances' = Moved(balances, a.makerAsset, sender, MANAGER,
                                     a.makingAmount)
                /\ allowances' = Spent(allowances, a.makerAsset, sender,
                                       a.makingAmount)
                /\ UNCHANGED <<now, extraData, frame, oracleVars, executedOptions,
                               cancelledEvents,
                               calcAuthorized, slAuthorized>>
           ELSE UNCHANGED vars

\* A faulty variant of createProtectedOption, which the properties must
\* reject: the option config expires at the duration, not at now + duration.
createProtectedOption_RelativeExpiry(sender, a) ==
    LET err == createProtectedOptionErr(sender, a)
        protectedOptionId == ProtectedOptionId(sender, now, protectedOptionCounter)
        optionId == OptionIdOf(protectedOptionId)
        stopLossId == StopLossIdOf(protectedOptionId)
        expiresAt == now + a.optionDuration
    IN  /\ protectedOptionCounter < MaxPositions
        /\ IF err = ""
           THEN /\ protectedOptionCounter' = protectedOptionCounter + 1
                /\ optionConfigs' =
                     (optionId :> [isCall |-> a.isCall,
                                   strikePrice |-> a.strikePrice,
                                   premium |-> a.premium,
                                   expiration |-> a.optionDuration,
                                   oracle |-> a.oracle,
                                   multiplier |-> DEFAULT_MULTIPLIER,
                                   isActive |-> TRUE]) @@ optionConfigs
                /\ stopLossConfigs' =
                     (stopLossId :> [stopLossPrice |-> a.stopLossPrice,
                                     maxLoss |-> a.maxLoss,
                                     timeWindow |-> DEFAULT_TIME_WINDOW,
                                     oracle |-> a.oracle,
                                     isActive |-> TRUE,
                                     isLowerBound |-> a.isCall,
                                     createdAt |-> now]) @@ stopLossConfigs
                /\ protectedOptions' =
                     (protectedOptionId :>
                        [optionId |-> optionId,
                         stopLossId |-> stopLossId,
                         maker |-> sender,
                         makerAsset |-> a.makerAsset,
                         takerAsset |-> a.takerAsset,
                         makingAmount |-> a.makingAmount,
                         minTakingAmount |-> a.minTakingAmount,
                         createdAt |-> now,
                         expiresAt |-> expiresAt,
                         isActive |-> TRUE,
                         isCall |-> a.isCall]) @@ protectedOptions
                /\ userOptions' =
                     [userOptions EXCEPT ![sender] = Append(@, protectedOptionId)]
                /\ balances' = Moved(balances, a.makerAsset, sender, MANAGER,
                                     a.makingAmount)
                /\ allowances' = Spent(allowances, a.makerAsset, sender,
                                       a.makingAmount)
                /\ UNCHANGED <<now, extraData, frame, oracleVars, executedOptions,
                               cancelledEvents,
                               calcAuthorized, slAuthorized>>
           ELSE UNCHANGED vars

createProtectedOption(sender, a) ==
    LET err == createProtectedOptionErr(sender, a)
        protectedOptionId == ProtectedOptionId(sender, now, protectedOptionCounter)
        optionId == OptionIdOf(protectedOptionId)
        stopLossId == StopLossIdOf(protectedOptionId)
        expiresAt == now + a.optionDuration
    IN  /\ protectedOptionCounter < MaxPositions
        /\ IF err = ""
           THEN /\ protectedOptionCounter' = protectedOptionCounter + 1
                /\ optionConfigs' =
                     (optionId :> [isCall |-> a.isCall,
                                   strikePrice |-> a.strikePrice,
                                   premium |-> a.premium,
                                   expiration |-> expiresAt,
                                   oracle |-> a.oracle,
                                   multiplier |-> DEFAULT_MULTIPLIER,
                                   isActive |-> TRUE]) @@ optionConfigs
                /\ stopLossConfigs' =
                     (stopLossId :> [stopLossPrice |-> a.stopLossPrice,
                                     maxLoss |-> a.maxLoss,
                                     timeWindow |-> DEFAULT_TIME_WINDOW,
                                     oracle |-> a.oracle,
                                     isActive |-> TRUE,
                                     isLowerBound |-> a.isCall,
                                     createdAt |-> now]) @@ stopLossConfigs
                /\ protectedOptions' =
                     (protectedOptionId :>
                        [optionId |-> optionId,
                         stopLossId |-> stopLossId,
                         maker |-> sender,
                         makerAsset |-> a.makerAsset,
                         takerAsset |-> a.takerAsset,
                         makingAmount |-> a.makingAmount,
                         minTakingAmount |-> a.minTakingAmount,
                         createdAt |-> now,
                         expiresAt |-> expiresAt,
                         isActive |-> TRUE,
                         isCall |-> a.isCall]) @@ protectedOptions
                /\ userOptions' =
                     [userOptions EXCEPT ![sender] = Append(@, protectedOptionId)]
                /\ balances' = Moved(balances, a.makerAsset, sender, MANAGER,
                                     a.makingAmount)
                /\ allowances' = Spent(allowances, a.makerAsset, sender,
                                       a.makingAmount)
                /\ UNCHANGED <<now, extraData, frame, oracleVars, executedOptions,
                               cancelledEvents,
                               calcAuthorized, slAuthorized>>
           ELSE UNCHANGED vars

\* Faulty variants of actualMakingAmount, which the properties must reject:
\* one pays the engine's amount without the cap, one always pays the whole
\* collateral.
actualMakingAmount_Uncapped(id, takingAmount) ==
    getMakingAmount(MANAGER, ProtectedOption(id).optionId, takingAmount).val

actualMakingAmount_Full(id, takingAmount) ==
    ProtectedOption(id).makingAmount

\* The amount executeProtectedOption pays out: the valuation engine's amount,
\* capped at the position's makingAmount.
actualMakingAmount(id, takingAmount) ==
    LET option == ProtectedOption(id)
        amount == getMakingAmount(MANAGER, option.optionId, takingAmount).val
    IN  IF amount > option.makingAmount THEN option.makingAmount ELSE amount

\* Faulty variants of executeProtectedOptionErr, which the properties must
\* reject: one never consults the stop-loss engine, one accepts an execution
\* at the very second of expiry.
executeProtectedOptionErr_NoStopLoss(sender, id, takingAmount) ==
    LET option == ProtectedOption(id)
        inTheMoney == isInTheMoney(option.optionId)
        making == getMakingAmount(MANAGER, option.optionId, takingAmount)
        pullErr == safeTransferFromErr(balances, allowances, option.takerAsset,
                                       sender, takingAmount)
        pulled == Moved(balances, option.takerAsset, sender, option.maker,
                        takingAmount)
    IN  IF ~option.isActive THEN "OptionNotActive"
        ELSE IF now >= option.expiresAt THEN "OptionExpired"
        ELSE IF id \in executedOptions THEN "OptionNotActive"
        ELSE IF takingAmount < option.minTakingAmount THEN "InsufficientAmount"
        ELSE IF inTheMoney.err # "" THEN inTheMoney.err
        ELSE IF ~inTheMoney.val THEN "OptionNotActive"
        ELSE IF making.err # "" THEN making.err
        ELSE IF pullErr # "" THEN pullErr
        ELSE safeTransferErr(pulled, option.makerAsset,
                             actualMakingAmount(id, takingAmount))

executeProtectedOptionErr_LateExpiry(sender, id, takingAmount) ==
    LET option == ProtectedOption(id)
        predicate == stopLossPredicate(option.stopLossId)
        inTheMoney == isInTheMoney(option.optionId)
        making == getMakingAmount(MANAGER, option.optionId, takingAmount)
        pullErr == safeTransferFromErr(balances, allowances, option.takerAsset,
                                       sender, takingAmount)
        pulled == Moved(balances, option.takerAsset, sender, option.maker,
                        takingAmount)
    IN  IF ~option.isActive THEN "OptionNotActive"
        ELSE IF now > option.expiresAt THEN "OptionExpired"
        ELSE IF id \in executedOptions THEN "OptionNotActive"
        ELSE IF takingAmount < option.minTakingAmount THEN "InsufficientAmount"
        ELSE IF predicate.err # "" THEN predicate.err
        ELSE IF ~predicate.val THEN "StopLossTriggered"
        ELSE IF inTheMoney.err # "" THEN inTheMoney.err
        ELSE IF ~inTheMoney.val THEN "OptionNotActive"
        ELSE IF making.err # "" THEN making.err
        ELSE IF pullErr # "" THEN pullErr
        ELSE safeTransferErr(pulled, option.makerAsset,
                             actualMakingAmount(id, takingAmount))

\* executeProtectedOption: "" when it succeeds, else the error it reverts with.
executeProtectedOptionErr(sender, id, takingAmount) ==
    LET option == ProtectedOption(id)
        predicate == stopLossPredicate(option.stopLossId)
        inTheMoney == isInTheMoney(option.optionId)
        making == getMakingAmount(MANAGER, option.optionId, takingAmount)
        pullErr == safeTransferFromErr(balances, allowances, option.takerAsset,
                                       sender, takingAmount)
        pulled == Moved(balances, option.takerAsset, sender, option.maker,
                        takingAmount)
    IN  IF ~option.isActive THEN "OptionNotActive"
        ELSE IF now >= option.expiresAt THEN "OptionExpired"
        ELSE IF id \in executedOptions THEN "OptionNotActive"
        ELSE IF takingAmount < option.minTakingAmount THEN "InsufficientAmount"
        ELSE IF predicate.err # "" THEN predicate.err
        ELSE IF ~predicate.val THEN "StopLossTriggered"
        ELSE IF inTheMoney.err # "" THEN inTheMoney.err
        ELSE IF ~inTheMoney.val THEN "OptionNotActive"
        ELSE IF making.err # "" THEN making.err
        ELSE IF pullErr # "" THEN pullErr
        ELSE safeTransferErr(pulled, option.makerAsset,
                             actualMakingAmount(id, takingAmount))

\* A faulty variant of executeProtectedOption, which the properties must
\* reject: the position is marked executed and left active.
executeProtectedOption_StaysActive(sender, id, takingAmount) ==
    LET err == executeProtectedOptionErr(sender, id, takingAmount)
        option == ProtectedOption(id)
        pulled == Moved(balances, option.takerAsset, sender, option.maker,
                        takingAmount)
    IN  IF err = ""
        THEN /\ balances' = Moved(pulled, option.makerAsset, MANAGER, sender,
                                  actualMakingAmount(id, takingAmount))
             /\ allowances' = Spent(allowances, option.takerAsset, sender,
                                    takingAmount)
             /\ executedOptions' = executedOptions \cup {id}
             /\ UNCHANGED protectedOptions
             /\ UNCHANGED <<now, extraData, frame, oracleVars, userOptions, protectedOptionCounter,
                            cancelledEvents,
                            engineVars>>
        ELSE UNCHANGED vars

executeProtectedOption(sender, id, takingAmount) ==
    LET err == executeProtectedOptionErr(sender, id, takingAmount)
        option == ProtectedOption(id)
        pulled == Moved(balances, option.takerAsset, sender, option.maker,
                        takingAmount)
    IN  IF err = ""
        THEN /\ balances' = Moved(pulled, option.makerAsset, MANAGER, sender,
                                  actualMakingAmount(id, takingAmount))
             /\ allowances' = Spent(allowances, option.takerAsset, sender,
                                    takingAmount)
             /\ executedOptions' = executedOptions \cup {id}
             /\ protectedOptions' = [protectedOptions EXCEPT ![id].isActive = FALSE]
             /\ UNCHANGED <<now, extraData, frame, oracleVars, userOptions, protectedOptionCounter,
                            cancelledEvents,
                            engineVars>>
        ELSE UNCHANGED vars

\* Faulty variants of cancelProtectedOptionErr, which the properties must
\* reject: one accepts a position that is no longer active, one lets any
\* account cancel.
cancelProtectedOptionErr_NoActiveCheck(sender, id) ==
    LET option == ProtectedOption(id)
        isOwner == sender = option.maker
        isExpired == now >= option.expiresAt
        predicate == stopLossPredicate(option.stopLossId)
        stopLossTriggered == ~predicate.val
    IN  IF predicate.err # "" THEN predicate.err
        ELSE IF ~isOwner /\ ~isExpired /\ ~stopLossTriggered THEN "UnauthorizedAccess"
        ELSE IF ~Calc_onlyAuthorized(MANAGER) THEN "UnauthorizedCaller"
        ELSE IF ~SL_onlyAuthorized(MANAGER) THEN "UnauthorizedCaller"
        ELSE safeTransferErr(balances, option.makerAsset, option.makingAmount)

cancelProtectedOptionErr_AnyCaller(sender, id) ==
    LET option == ProtectedOption(id)
        predicate == stopLossPredicate(option.stopLossId)
    IN  IF ~option.isActive THEN "OptionNotActive"
        ELSE IF predicate.err # "" THEN predicate.err
        ELSE IF ~Calc_onlyAuthorized(MANAGER) THEN "UnauthorizedCaller"
        ELSE IF ~SL_onlyAuthorized(MANAGER) THEN "UnauthorizedCaller"
        ELSE safeTransferErr(balances, option.makerAsset, option.makingAmount)

\* cancelProtectedOption: "" when it succeeds, else the error it reverts with.
cancelProtectedOptionErr(sender, id) ==
    LET option == ProtectedOption(id)
        isOwner == sender = option.maker
        isExpired == now >= option.expiresAt
        predicate == stopLossPredicate(option.stopLossId)
        stopLossTriggered == ~predicate.val
    IN  IF ~option.isActive THEN "OptionNotActive"
        ELSE IF predicate.err # "" THEN predicate.err
        ELSE IF ~isOwner /\ ~isExpired /\ ~stopLossTriggered THEN "UnauthorizedAccess"
        ELSE IF ~Calc_onlyAuthorized(MANAGER) THEN "UnauthorizedCaller"
        ELSE IF ~SL_onlyAuthorized(MANAGER) THEN "UnauthorizedCaller"
        ELSE safeTransferErr(balances, option.makerAsset, option.makingAmount)

\* A faulty variant of cancelReason, which the properties must reject: the
\* stop-loss is looked at before the expiry.
cancelReason_StopLossFirst(id) ==
    LET option == ProtectedOption(id)
    IN  IF ~stopLossPredicate(option.stopLossId).val THEN "stop-loss"
        ELSE IF now >= option.expiresAt THEN "expired"
        ELSE "cancelled"

\* The reason of the ProtectedOptionCancelled event.
cancelReason(id) ==
    LET option == ProtectedOption(id)
    IN  IF now >= option.expiresAt THEN "expired"
        ELSE IF ~stopLossPredicate(option.stopLossId).val THEN "stop-loss"
        ELSE "cancelled"

\* A faulty variant of cancelProtectedOption, which the properties must
\* reject: it returns the collateral to the caller instead of the maker.
cancelProtectedOption_PaysCaller(sender, id) ==
    LET err == cancelProtectedOptionErr(sender, id)
        option == ProtectedOption(id)
    IN  IF err = ""
        THEN /\ optionConfigs' =
                  [optionConfigs EXCEPT ![option.optionId].isActive = FALSE]
             /\ stopLossConfigs' =
                  [stopLossConfigs EXCEPT ![option.stopLossId].isActive = FALSE]
             /\ balances' = Moved(balances, option.makerAsset, MANAGER,
                                  sender, option.makingAmount)
             /\ protectedOptions' = [protectedOptions EXCEPT ![id].isActive = FALSE]
             /\ cancelledEvents' = (id :> cancelReason(id)) @@ cancelledEvents
             /\ UNCHANGED <<now, extraData, frame, oracleVars, allowances, userOptions,
                            executedOptions, protectedOptionCounter,
                            calcAuthorized, slAuthorized>>
        ELSE UNCHANGED vars

\* A faulty variant of cancelProtectedOption, which the properties must
\* reject: the record of the position is deleted.
cancelProtectedOption_Deletes(sender, id) ==
    LET err == cancelProtectedOptionErr(sender, id)
        option == ProtectedOption(id)
    IN  IF err = ""
        THEN /\ optionConfigs' =
                  [optionConfigs EXCEPT ![option.optionId].isActive = FALSE]
             /\ stopLossConfigs' =
                  [stopLossConfigs EXCEPT ![option.stopLossId].isActive = FALSE]
             /\ balances' = Moved(balances, option.makerAsset, MANAGER,
                                  option.maker, option.makingAmount)
             /\ protectedOptions' = [protectedOptions EXCEPT ![id] = ZeroProtectedOption]
             /\ cancelledEvents' = (id :> cancelReason(id)) @@ cancelledEvents
             /\ UNCHANGED <<now, extraData, frame, oracleVars, allowances, userOptions,
                            executedOptions, protectedOptionCounter,
                            calcAuthorized, slAuthorized>>
        ELSE UNCHANGED vars

cancelProtectedOption(sender, id) ==
    LET err == cancelProtectedOptionErr(sender, id)
        option == ProtectedOption(id)
    IN  IF err = ""
        THEN /\ optionConfigs' =
                  [optionConfigs EXCEPT ![option.optionId].isActive = FALSE]
             /\ stopLossConfigs' =
                  [stopLossConfigs EXCEPT ![option.stopLossId].isActive = FALSE]
             /\ balances' = Moved(balances, option.makerAsset, MANAGER,
                                  option.maker, option.makingAmount)
             /\ protectedOptions' = [protectedOptions EXCEPT ![id].isActive = FALSE]
             /\ cancelledEvents' = (id :> cancelReason(id)) @@ cancelledEvents
             /\ UNCHANGED <<now, extraData, frame, oracleVars, allowances, userOptions,
                            executedOptions, protectedOptionCounter,
                            calcAuthorized, slAuthorized>>
        ELSE UNCHANGED vars

\* Faulty variants of canExecuteOption, which the properties must reject: one
\* consults the stop-loss engine before the expiry check, one omits the
\* in-the-money check.
canExecuteOption_StopLossFirst(id) ==
    LET option == ProtectedOption(id)
        predicate == stopLossPredicate(option.stopLossId)
        inTheMoney == isInTheMoney(option.optionId)
    IN  IF ~option.isActive THEN Ret(<<FALSE, "Option not active">>)
        ELSE IF predicate.err # "" THEN predicate
        ELSE IF ~predicate.val THEN Ret(<<FALSE, "Stop-loss triggered">>)
        ELSE IF now >= option.expiresAt THEN Ret(<<FALSE, "Option expired">>)
        ELSE IF id \in executedOptions THEN Ret(<<FALSE, "Already executed">>)
        ELSE IF inTheMoney.err # "" THEN inTheMoney
        ELSE IF ~inTheMoney.val THEN Ret(<<FALSE, "Option out of the money">>)
        ELSE Ret(<<TRUE, "Can execute">>)

canExecuteOption_NoMoneyCheck(id) ==
    LET option == ProtectedOption(id)
        predicate == stopLossPredicate(option.stopLossId)
    IN  IF ~option.isActive THEN Ret(<<FALSE, "Option not active">>)
        ELSE IF now >= option.expiresAt THEN Ret(<<FALSE, "Option expired">>)
        ELSE IF id \in executedOptions THEN Ret(<<FALSE, "Already executed">>)
        ELSE IF predicate.err # "" THEN predicate
        ELSE IF ~predicate.val THEN Ret(<<FALSE, "Stop-loss triggered">>)
        ELSE Ret(<<TRUE, "Can execute">>)

\* canExecuteOption: the pair it returns, or the error it reverts with.
canExecuteOption(id) ==
    LET option == ProtectedOption(id)
        predicate == stopLossPredicate(option.stopLossId)
        inTheMoney == isInTheMoney(option.optionId)
    IN  IF ~option.isActive THEN Ret(<<FALSE, "Option not active">>)
        ELSE IF now >= option.expiresAt THEN Ret(<<FALSE, "Option expired">>)
        ELSE IF id \in executedOptions THEN Ret(<<FALSE, "Already executed">>)
        ELSE IF predicate.err # "" THEN predicate
        ELSE IF ~predicate.val THEN Ret(<<FALSE, "Stop-loss triggered">>)
        ELSE IF inTheMoney.err # "" THEN inTheMoney
        ELSE IF ~inTheMoney.val THEN Ret(<<FALSE, "Option out of the money">>)
        ELSE Ret(<<TRUE, "Can execute">>)

\* emergencyRecover, onlyOwner: the owner takes `amount` of `token`.
emergencyRecover(sender, token, amount) ==
    LET err == IF sender # OWNER THEN "OwnableUnauthorizedAccount"
               ELSE safeTransferErr(balances, token, amount)
    IN  IF err = ""
        THEN /\ balances' = Moved(balances, token, MANAGER, OWNER, amount)
             /\ UNCHANGED <<now, extraData, frame, oracleVars, allowances, managerVars, engineVars>>
        ELSE UNCHANGED vars

(***************************************************************************)
(* The orchestrator's entry points at the grain of their token transfers.  *)
(* A transfer hands control to the token, which may call back before the   *)
(* entry point has finished; ReentrancyGuard's status is ENTERED exactly   *)
(* while a nonReentrant call is in progress.                               *)
(***************************************************************************)
NoFrame == [op |-> "none", id |-> NoId, reason |-> ""]

\* A faulty variant of the guard, which the properties must reject: it lets
\* every call through.
nonReentrantErr_Off == ""

nonReentrantErr ==
    IF frame.op # "none" THEN "ReentrancyGuardReentrantCall" ELSE ""

\* createProtectedOption up to and including its safeTransferFrom.
createEnter(sender, a) ==
    LET protectedOptionId == ProtectedOptionId(sender, now, protectedOptionCounter)
        optionId == OptionIdOf(protectedOptionId)
        stopLossId == StopLossIdOf(protectedOptionId)
        expiresAt == now + a.optionDuration
    IN  /\ frame = NoFrame
        /\ protectedOptionCounter < MaxPositions
        /\ IF createProtectedOptionErr(sender, a) = ""
           THEN /\ protectedOptionCounter' = protectedOptionCounter + 1
                /\ optionConfigs' =
                     (optionId :> [isCall |-> a.isCall,
                                   strikePrice |-> a.strikePrice,
                                   premium |-> a.premium,
                                   expiration |-> expiresAt,
                                   oracle |-> a.oracle,
                                   multiplier |-> DEFAULT_MULTIPLIER,
                                   isActive |-> TRUE]) @@ optionConfigs
                /\ stopLossConfigs' =
                     (stopLossId :> [stopLossPrice |-> a.stopLossPrice,
                                     maxLoss |-> a.maxLoss,
                                     timeWindow |-> DEFAULT_TIME_WINDOW,
                                     oracle |-> a.oracle,
                                     isActive |-> TRUE,
                                     isLowerBound |-> a.isCall,
                                     createdAt |-> now]) @@ stopLossConfigs
                /\ protectedOptions' =
                     (protectedOptionId :>
                        [optionId |-> optionId,
                         stopLossId |-> stopLossId,
                         maker |-> sender,
                         makerAsset |-> a.makerAsset,
                         takerAsset |-> a.takerAsset,
                         makingAmount |-> a.makingAmount,
                         minTakingAmount |-> a.minTakingAmount,
                         createdAt |-> now,
                         expiresAt |-> expiresAt,
                         isActive |-> TRUE,
                         isCall |-> a.isCall]) @@ protectedOptions
                /\ userOptions' =
                     [userOptions EXCEPT ![sender] = Append(@, protectedOptionId)]
                /\ balances' = Moved(balances, a.makerAsset, sender, MANAGER,
                                     a.makingAmount)
                /\ allowances' = Spent(allowances, a.makerAsset, sender,
                                       a.makingAmount)
                /\ frame' = [op |-> "create", id |-> protectedOptionId, reason |-> ""]
                /\ UNCHANGED <<now, extraData, oracleVars, executedOptions,
                               cancelledEvents,
                               calcAuthorized, slAuthorized>>
           ELSE UNCHANGED vars

\* The transfer was the last statement: the call returns.
createLeave ==
    /\ frame.op = "create"
    /\ frame' = NoFrame
    /\ UNCHANGED <<now, extraData, oracleVars, tokenVars, managerVars, engineVars>>

\* executeProtectedOption up to and including its two transfers.
executeEnter(sender, id, takingAmount) ==
    LET option == ProtectedOption(id)
        pulled == Moved(balances, option.takerAsset, sender, option.maker,
                        takingAmount)
    IN  /\ frame = NoFrame
        /\ IF executeProtectedOptionErr(sender, id, takingAmount) = ""
           THEN /\ balances' = Moved(pulled, option.makerAsset, MANAGER, sender,
                                     actualMakingAmount(id, takingAmount))
                /\ allowances' = Spent(allowances, option.takerAsset, sender,
                                       takingAmount)
                /\ frame' = [op |-> "execute", id |-> id, reason |-> ""]
                /\ UNCHANGED <<now, extraData, oracleVars, managerVars, engineVars>>
           ELSE UNCHANGED vars

\* The rest of executeProtectedOption: the position is marked executed.
executeLeave ==
    /\ frame.op = "execute"
    /\ executedOptions' = executedOptions \cup {frame.id}
    /\ protectedOptions' = [protectedOptions EXCEPT ![frame.id].isActive = FALSE]
    /\ frame' = NoFrame
    /\ UNCHANGED <<now, extraData, oracleVars, tokenVars, userOptions,
                   protectedOptionCounter, cancelledEvents, engineVars>>

\* cancelProtectedOption up to and including its transfer.
cancelEnter(sender, id) ==
    LET option == ProtectedOption(id)
    IN  /\ frame = NoFrame
        /\ IF cancelProtectedOptionErr(sender, id) = ""
           THEN /\ optionConfigs' =
                     [optionConfigs EXCEPT ![option.optionId].isActive = FALSE]
                /\ stopLossConfigs' =
                     [stopLossConfigs EXCEPT ![option.stopLossId].isActive = FALSE]
                /\ balances' = Moved(balances, option.makerAsset, MANAGER,
                                     option.maker, option.makingAmount)
                /\ frame' = [op |-> "cancel", id |-> id,
                                 reason |-> cancelReason(id)]
                /\ UNCHANGED <<now, extraData, oracleVars, allowances, managerVars,
                               calcAuthorized, slAuthorized>>
           ELSE UNCHANGED vars

\* The rest of cancelProtectedOption: the position is marked inactive and
\* the event is emitted with the reason derived on entry.
cancelLeave ==
    /\ frame.op = "cancel"
    /\ protectedOptions' = [protectedOptions EXCEPT ![frame.id].isActive = FALSE]
    /\ cancelledEvents' = (frame.id :> frame.reason) @@ cancelledEvents
    /\ frame' = NoFrame
    /\ UNCHANGED <<now, extraData, oracleVars, tokenVars, userOptions,
                   executedOptions, protectedOptionCounter, engineVars>>

\* A call made from inside a transfer of the call in progress: the guard
\* decides whether it runs.
reenterCreate(sender, a) ==
    /\ frame # NoFrame
    /\ IF nonReentrantErr = "" THEN createProtectedOption(sender, a)
       ELSE UNCHANGED vars

reenterExecute(sender, id, takingAmount) ==
    /\ frame # NoFrame
    /\ IF nonReentrantErr = "" THEN executeProtectedOption(sender, id, takingAmount)
       ELSE UNCHANGED vars

reenterCancel(sender, id) ==
    /\ frame # NoFrame
    /\ IF nonReentrantErr = "" THEN cancelProtectedOption(sender, id)
       ELSE UNCHANGED vars

(***************************************************************************)
(* Administration of the engines (onlyOwner).                              *)
(***************************************************************************)
Calc_setAuthorizedCaller(sender, caller, authorized) ==
    /\ setAuthorizedCallerErr(sender) = ""
    /\ calcAuthorized' = IF authorized THEN calcAuthorized \cup {caller}
                         ELSE calcAuthorized \ {caller}
    /\ UNCHANGED <<now, extraData, frame, oracleVars, tokenVars, managerVars, optionConfigs,
                   stopLossConfigs, slAuthorized>>

SL_setAuthorizedCaller(sender, caller, authorized) ==
    /\ setAuthorizedCallerErr(sender) = ""
    /\ slAuthorized' = IF authorized THEN slAuthorized \cup {caller}
                       ELSE slAuthorized \ {caller}
    /\ UNCHANGED <<now, extraData, frame, oracleVars, tokenVars, managerVars, optionConfigs,
                   stopLossConfigs, calcAuthorized>>

(***************************************************************************)
(* OneinchProtectedOptionsIntegration, the adapter.  A payload is the      *)
(* sequence of its 32-byte words: abi.encode of the static struct          *)
(* ProtectedOptionData is its four fields, one word each, the bool as 0    *)
(* or 1.                                                                   *)
(***************************************************************************)
encodeProtectedOptionData(optionId, stopLossId, minPayoff, enforceStopLoss) ==
    <<optionId, stopLossId, minPayoff, IF enforceStopLoss THEN 1 ELSE 0>>

\* Faulty variants of _safeDecode, which the properties must reject: one
\* reads the two ids in the wrong order, one takes every non-zero word for
\* true.
safeDecode_Swapped(data) ==
    IF Len(data) < 4 THEN Revert("Panic")
    ELSE IF data[4] \notin {0, 1} THEN Revert("Panic")
    ELSE Ret([optionId |-> data[2],
              stopLossId |-> data[1],
              minPayoff |-> data[3],
              enforceStopLoss |-> (data[4] = 1)])

\* abi.decode(extraData, (ProtectedOptionData)): fewer than four words, or a
\* bool word other than 0 and 1, revert; words after the fourth are ignored.
safeDecode(data) ==
    IF Len(data) < 4 THEN Revert("Panic")
    ELSE IF data[4] \notin {0, 1} THEN Revert("Panic")
    ELSE Ret([optionId |-> data[1],
              stopLossId |-> data[2],
              minPayoff |-> data[3],
              enforceStopLoss |-> (data[4] = 1)])

decodeExtraData(data) ==
    IF Len(data) = 0 THEN Revert("InvalidExtraData")
    ELSE IF safeDecode(data).err # "" THEN Revert("InvalidExtraData")
    ELSE safeDecode(data)

\* Faulty variants of the adapter's getMakingAmount, which the properties
\* must reject: one does not cap the quote at remainingMakingAmount.
Adapter_getMakingAmount_Uncapped(data, takingAmount, remainingMakingAmount) ==
    LET d == decodeExtraData(data)
        stopLossValid == stopLossPredicate(d.val.stopLossId)
        quote == getMakingAmount(ADAPTER, d.val.optionId, takingAmount)
    IN  IF d.err # "" THEN d
        ELSE IF d.val.enforceStopLoss /\ stopLossValid.err # "" THEN stopLossValid
        ELSE IF d.val.enforceStopLoss /\ ~stopLossValid.val
             THEN Revert("StopLossTriggered")
        ELSE IF quote.err # "" THEN quote
        ELSE IF quote.val < d.val.minPayoff THEN Revert("InsufficientPayoff")
        ELSE Ret(quote.val)

\* Another faulty variant: the quote is not compared with minPayoff.
Adapter_getMakingAmount_NoMinPayoff(data, takingAmount, remainingMakingAmount) ==
    LET d == decodeExtraData(data)
        stopLossValid == stopLossPredicate(d.val.stopLossId)
        quote == getMakingAmount(ADAPTER, d.val.optionId, takingAmount)
    IN  IF d.err # "" THEN d
        ELSE IF d.val.enforceStopLoss /\ stopLossValid.err # "" THEN stopLossValid
        ELSE IF d.val.enforceStopLoss /\ ~stopLossValid.val
             THEN Revert("StopLossTriggered")
        ELSE IF quote.err # "" THEN quote
        ELSE IF quote.val > remainingMakingAmount THEN Ret(remainingMakingAmount)
        ELSE Ret(quote.val)

\* The adapter is the msg.sender of its calls into the engines.
Adapter_getMakingAmount(data, takingAmount, remainingMakingAmount) ==
    LET d == decodeExtraData(data)
        stopLossValid == stopLossPredicate(d.val.stopLossId)
        quote == getMakingAmount(ADAPTER, d.val.optionId, takingAmount)
    IN  IF d.err # "" THEN d
        ELSE IF d.val.enforceStopLoss /\ stopLossValid.err # "" THEN stopLossValid
        ELSE IF d.val.enforceStopLoss /\ ~stopLossValid.val
             THEN Revert("StopLossTriggered")
        ELSE IF quote.err # "" THEN quote
        ELSE IF quote.val < d.val.minPayoff THEN Revert("InsufficientPayoff")
        ELSE IF quote.val > remainingMakingAmount THEN Ret(remainingMakingAmount)
        ELSE Ret(quote.val)

\* A faulty variant of the adapter's getTakingAmount, which the properties
\* must reject: it quotes without looking at the stop-loss.
Adapter_getTakingAmount_NoStopLoss(data, makingAmount) ==
    LET d == decodeExtraData(data)
    IN  IF d.err # "" THEN d
        ELSE getTakingAmount(ADAPTER, d.val.optionId, makingAmount)

Adapter_getTakingAmount(data, makingAmount) ==
    LET d == decodeExtraData(data)
        stopLossValid == stopLossPredicate(d.val.stopLossId)
    IN  IF d.err # "" THEN d
        ELSE IF d.val.enforceStopLoss /\ stopLossValid.err # "" THEN stopLossValid
        ELSE IF d.val.enforceStopLoss /\ ~stopLossValid.val
             THEN Revert("StopLossTriggered")
        ELSE getTakingAmount(ADAPTER, d.val.optionId, makingAmount)

internalProtectedOptionPredicate(data) ==
    LET d == decodeExtraData(data)
        inTheMoney == isInTheMoney(d.val.optionId)
        stopLossValid == stopLossPredicate(d.val.stopLossId)
    IN  IF d.err # "" THEN d
        ELSE IF inTheMoney.err # "" THEN inTheMoney
        ELSE IF ~inTheMoney.val THEN Ret(FALSE)
        ELSE IF d.val.enforceStopLoss /\ stopLossValid.err # "" THEN stopLossValid
        ELSE IF d.val.enforceStopLoss /\ ~stopLossValid.val THEN Ret(FALSE)
        ELSE Ret(TRUE)

\* A faulty variant of protectedOptionPredicate, which the properties must
\* reject: the failure of the inner evaluation propagates.
protectedOptionPredicate_NoCatch(data) ==
    internalProtectedOptionPredicate(data)

\* try this._internalProtectedOptionPredicate(extraData) ... catch: false.
protectedOptionPredicate(data) ==
    IF internalProtectedOptionPredicate(data).err # "" THEN Ret(FALSE)
    ELSE internalProtectedOptionPredicate(data)

\* A faulty variant of getProtectedOptionStatus, which the properties must
\* reject: canExecute looks at the valuation only.
getProtectedOptionStatus_MoneyOnly(optionId, stopLossId) ==
    LET inTheMoney == isInTheMoney(optionId)
        values == getIntrinsicValue(optionId)
        stopLossStatus == stopLossPredicate(stopLossId)
    IN  IF inTheMoney.err # "" THEN inTheMoney
        ELSE IF values.err # "" THEN values
        ELSE IF stopLossStatus.err # "" THEN stopLossStatus
        ELSE Ret([canExecute |-> inTheMoney.val,
                  currentPrice |-> values.val[2],
                  intrinsicValue |-> values.val[1],
                  stopLossStatus |-> stopLossStatus.val])

\* getProtectedOptionStatus: the four values it returns, or the error of the
\* first engine call that reverts.
getProtectedOptionStatus(optionId, stopLossId) ==
    LET inTheMoney == isInTheMoney(optionId)
        values == getIntrinsicValue(optionId)
        stopLossStatus == stopLossPredicate(stopLossId)
    IN  IF inTheMoney.err # "" THEN inTheMoney
        ELSE IF values.err # "" THEN values
        ELSE IF stopLossStatus.err # "" THEN stopLossStatus
        ELSE Ret([canExecute |-> inTheMoney.val /\ stopLossStatus.val,
                  currentPrice |-> values.val[2],
                  intrinsicValue |-> values.val[1],
                  stopLossStatus |-> stopLossStatus.val])

\* A payload is handed to the adapter: one built by
\* encodeProtectedOptionData, or raw bytes.
submitEncoded(optionId, stopLossId, minPayoff, enforceStopLoss) ==
    /\ extraData' = encodeProtectedOptionData(optionId, stopLossId, minPayoff,
                                              enforceStopLoss)
    /\ UNCHANGED <<now, frame, oracleVars, tokenVars, managerVars, engineVars>>

submitRaw(data) ==
    /\ extraData' = data
    /\ UNCHANGED <<now, frame, oracleVars, tokenVars, managerVars, engineVars>>

(***************************************************************************)
(* The engines called directly by the owner or another account.            *)
(***************************************************************************)
setOptionConfig(sender, optionId, isCall, strikePrice, premium, expiration, oracle, multiplier) ==
    IF setOptionConfigErr(sender, strikePrice, expiration, oracle, multiplier) = ""
    THEN /\ optionConfigs' =
              (optionId :> [isCall |-> isCall,
                            strikePrice |-> strikePrice,
                            premium |-> premium,
                            expiration |-> expiration,
                            oracle |-> oracle,
                            multiplier |-> multiplier,
                            isActive |-> TRUE]) @@ optionConfigs
         /\ UNCHANGED <<now, extraData, frame, oracleVars, tokenVars, managerVars,
                        calcAuthorized, stopLossConfigs, slAuthorized>>
    ELSE UNCHANGED vars

deactivateOption(sender, optionId) ==
    IF deactivateOptionErr(sender) = "" /\ optionId \in DOMAIN optionConfigs
    THEN /\ optionConfigs' = [optionConfigs EXCEPT ![optionId].isActive = FALSE]
         /\ UNCHANGED <<now, extraData, frame, oracleVars, tokenVars, managerVars,
                        calcAuthorized, stopLossConfigs, slAuthorized>>
    ELSE UNCHANGED vars

configureStopLoss(sender, stopLossId, stopLossPrice, maxLoss, timeWindow, oracle, isLowerBound) ==
    IF configureStopLossErr(sender, stopLossPrice, maxLoss, timeWindow, oracle) = ""
    THEN /\ stopLossConfigs' =
              (stopLossId :> [stopLossPrice |-> stopLossPrice,
                              maxLoss |-> maxLoss,
                              timeWindow |-> timeWindow,
                              oracle |-> oracle,
                              isActive |-> TRUE,
                              isLowerBound |-> isLowerBound,
                              createdAt |-> now]) @@ stopLossConfigs
         /\ UNCHANGED <<now, extraData, frame, oracleVars, tokenVars, managerVars,
                        optionConfigs, calcAuthorized, slAuthorized>>
    ELSE UNCHANGED vars

deactivateStopLoss(sender, stopLossId) ==
    IF deactivateStopLossErr(sender) = "" /\ stopLossId \in DOMAIN stopLossConfigs
    THEN /\ stopLossConfigs' =
              [stopLossConfigs EXCEPT ![stopLossId].isActive = FALSE]
         /\ UNCHANGED <<now, extraData, frame, oracleVars, tokenVars, managerVars,
                        optionConfigs, calcAuthorized, slAuthorized>>
    ELSE UNCHANGED vars

(***************************************************************************)
(* The environment: the feed is updated, time passes.                      *)
(***************************************************************************)
setLatestPrice(newPrice) ==
    /\ oraclePrice' = newPrice
    /\ oracleUpdatedAt' = now
    /\ UNCHANGED <<now, extraData, frame, tokenVars, managerVars, engineVars>>

advanceTime(d) ==
    /\ now + d <= MaxTime
    /\ now' = now + d
    /\ UNCHANGED <<extraData, frame, oracleVars, tokenVars, managerVars, engineVars>>

\* Time passes by d seconds, within the horizon of the engine scenarios.
increaseTime(d) ==
    /\ d > 0
    /\ now + d <= MaxEngineTime
    /\ now' = now + d
    /\ UNCHANGED <<extraData, frame, oracleVars, tokenVars, managerVars, engineVars>>

(***************************************************************************)
(* Inputs.                                                                 *)
(***************************************************************************)
BaseArgs ==
    [isCall |-> TRUE, strikePrice |-> 3000000, premium |-> 500,
     optionDuration |-> MIN_OPTION_DURATION, makerAsset |-> "TK1",
     takerAsset |-> "TK2", makingAmount |-> 4, minTakingAmount |-> 300,
     stopLossPrice |-> 5000000, maxLoss |-> 1000, oracle |-> ORACLE]

ValidArgs == {BaseArgs, [BaseArgs EXCEPT !.isCall = FALSE]}

InvalidArgs ==
    {[BaseArgs EXCEPT !.optionDuration = MIN_OPTION_DURATION - 1],
     [BaseArgs EXCEPT !.optionDuration = MAX_OPTION_DURATION + 1],
     [BaseArgs EXCEPT !.makingAmount = 0],
     [BaseArgs EXCEPT !.minTakingAmount = 0],
     [BaseArgs EXCEPT !.makerAsset = NULL],
     [BaseArgs EXCEPT !.takerAsset = NULL],
     [BaseArgs EXCEPT !.strikePrice = 0],
     [BaseArgs EXCEPT !.oracle = NULL],
     [BaseArgs EXCEPT !.stopLossPrice = 0],
     [BaseArgs EXCEPT !.maxLoss = 0],
     [BaseArgs EXCEPT !.maxLoss = MAX_LOSS_BP + 1],
     [BaseArgs EXCEPT !.makingAmount = 9]}

CreateArgs == ValidArgs \cup InvalidArgs
TakingAmounts == {300, 600}
Prices == {0, 1000000, 2000000, 5000000, 6000000}
TimeSteps == {1800, 2100}
RecoverAmounts == {4}
Ids == DOMAIN protectedOptions

\* The calls the properties range over: those of the actions, and calls that
\* can only revert (an id never issued, an amount below every minimum).
UnknownId == ProtectedOptionId(NULL, 0, 0)
AllIds == Ids \cup {UnknownId}
AllTakingAmounts == TakingAmounts \cup {200}

\* The tokens minted to each account, and what each account has approved to
\* the orchestrator: the maker its collateral token, the taker its payment token.
InitialBalance(token, acct) ==
    IF token = "TK1" THEN (IF acct = "alice" THEN 8 ELSE 0)
    ELSE (IF acct = "bob" THEN 900 ELSE 0)

InitialAllowance(token, acct) ==
    IF token = "TK1" THEN (IF acct = "alice" THEN 8 ELSE 0)
    ELSE (IF acct = "bob" THEN 900 ELSE 0)

Init ==
    /\ now = 0
    /\ oraclePrice = 2000000
    /\ oracleUpdatedAt = 0
    /\ balances = [t \in Tokens |-> [acct \in Accounts |-> InitialBalance(t, acct)]]
    /\ allowances = [t \in Tokens |-> [acct \in Users |-> InitialAllowance(t, acct)]]
    /\ protectedOptions = <<>>
    /\ userOptions = [u \in Users |-> <<>>]
    /\ executedOptions = {}
    /\ protectedOptionCounter = 0
    /\ optionConfigs = <<>>
    /\ calcAuthorized = {OWNER, MANAGER, ADAPTER}
    /\ stopLossConfigs = <<>>
    /\ slAuthorized = {OWNER, MANAGER, ADAPTER}
    /\ extraData = <<>>
    /\ frame = NoFrame
    /\ cancelledEvents = <<>>

Makers == {"alice"}
Create == \E sender \in Makers, a \in CreateArgs : createProtectedOption(sender, a)
Execute ==
    \E sender \in Users, id \in Ids, t \in TakingAmounts :
        executeProtectedOption(sender, id, t)
Cancel == \E sender \in Users, id \in Ids : cancelProtectedOption(sender, id)
SetLatestPrice == \E p \in Prices : setLatestPrice(p)
AdvanceTime == \E d \in TimeSteps : advanceTime(d)
EmergencyRecover ==
    \E sender \in Users \cup {OWNER}, token \in Tokens, amount \in RecoverAmounts :
        emergencyRecover(sender, token, amount)
SetAuthorizedCaller ==
    \E b \in BOOLEAN :
        \/ Calc_setAuthorizedCaller(OWNER, MANAGER, b)
        \/ SL_setAuthorizedCaller(OWNER, MANAGER, b)

\* Inputs of the direct calls: one option id and one stop-loss id chosen by
\* the caller, an authorized and an unauthorized caller, a config that expires
\* at EarlyExpiration and one that outlives the scenario.
DirectId == ProtectedOptionId(OWNER, 0, 0)
DirectOptionId == OptionIdOf(DirectId)
DirectStopLossId == StopLossIdOf(DirectId)
EngineCallers == {OWNER, "bob"}
EarlyExpiration == 3601
LateExpiration == 7200
Expirations == {EarlyExpiration, LateExpiration}
EngineTimes == {300, 301, 3600, 3601}

\* Payloads: the fields that are encoded, and raw payloads that are empty,
\* too short, carry a bool word that is neither 0 nor 1, or carry a word too
\* many.
PayloadOptionIds == {DirectOptionId, OptionIdOf(UnknownId)}
PayloadStopLossIds == {DirectStopLossId}
MinPayoffs == {0, 3}
RawPayloads ==
    { <<>>,
      <<DirectOptionId, DirectStopLossId, 0>>,
      <<DirectOptionId, DirectStopLossId, 0, 2>>,
      <<DirectOptionId, DirectStopLossId, 0, 1, 0>> }
RemainingAmounts == {0, 3, 200}

SubmitEncoded ==
    \E optionId \in PayloadOptionIds, stopLossId \in PayloadStopLossIds,
       minPayoff \in MinPayoffs, enforceStopLoss \in BOOLEAN :
        submitEncoded(optionId, stopLossId, minPayoff, enforceStopLoss)
SubmitRaw == \E data \in RawPayloads : submitRaw(data)

\* Inputs of the quotes: premiums of 0, 0.5 and 1.5 (in units of 1e18), the
\* smallest and the largest multiplier, and amounts small enough for the
\* products to stay representable.
QuotePremiums == {0, BaseArgs.premium, 1500}
QuoteMultipliers == {DEFAULT_MULTIPLIER, MAX_MULTIPLIER}
QuoteTakingAmounts == {3, 7}
QuoteMakingAmounts == {4}

SetQuoteConfig ==
    \E isCall \in BOOLEAN, premium \in QuotePremiums,
       multiplier \in QuoteMultipliers, expiration \in Expirations :
        setOptionConfig(OWNER, DirectOptionId, isCall, BaseArgs.strikePrice,
                        premium, expiration, ORACLE, multiplier)
\* The owner, or another account, lists or unlists a caller of an engine.
SetEngineAuthorizedCaller ==
    \E sender \in EngineCallers, caller \in EngineCallers, b \in BOOLEAN :
        \/ Calc_setAuthorizedCaller(sender, caller, b)
        \/ SL_setAuthorizedCaller(sender, caller, b)

SetOptionConfig ==
    \E sender \in EngineCallers, isCall \in BOOLEAN, expiration \in Expirations :
        setOptionConfig(sender, DirectOptionId, isCall, BaseArgs.strikePrice,
                        BaseArgs.premium, expiration, ORACLE, DEFAULT_MULTIPLIER)
DeactivateOption ==
    \E sender \in EngineCallers : deactivateOption(sender, DirectOptionId)
ConfigureStopLoss ==
    \E sender \in EngineCallers, isLowerBound \in BOOLEAN :
        configureStopLoss(sender, DirectStopLossId, BaseArgs.stopLossPrice,
                          BaseArgs.maxLoss, DEFAULT_TIME_WINDOW, ORACLE,
                          isLowerBound)
DeactivateStopLoss ==
    \E sender \in EngineCallers : deactivateStopLoss(sender, DirectStopLossId)
IncreaseTime == \E t \in EngineTimes : increaseTime(t - now)

\* Positions in normal use: the orchestrator, the feed and the clock.
Next == Create \/ Execute \/ Cancel \/ SetLatestPrice \/ AdvanceTime
Spec == Init /\ [][Next]_vars

\* The same with the owner's operations, over MaxAdminPositions positions.
CreateAdmin == protectedOptionCounter < MaxAdminPositions /\ Create
NextAdmin ==
    \/ CreateAdmin \/ Execute \/ Cancel \/ SetLatestPrice \/ AdvanceTime
    \/ EmergencyRecover \/ SetAuthorizedCaller
SpecAdmin == Init /\ [][NextAdmin]_vars

(***************************************************************************)
(* Properties.                                                             *)
(***************************************************************************)
Settled(id) == id \in DOMAIN protectedOptions /\ ~protectedOptions[id].isActive
Active(id) == id \in DOMAIN protectedOptions /\ protectedOptions[id].isActive
Cancelled(id) == Settled(id) /\ id \notin executedOptions
Expired(id) == now >= ProtectedOption(id).expiresAt

\* The feed's answer is usable by the stop-loss engine.
FreshForStopLoss ==
    /\ oracleUpdatedAt <= now
    /\ now - oracleUpdatedAt <= SL_MAX_PRICE_AGE
    /\ oraclePrice > 0

\* The stop-loss of position id is triggered: its config is active and a fresh
\* price is at or beyond the threshold (below it for a call, above for a put).
StopLossIsTriggered(id) ==
    LET option == ProtectedOption(id)
        config == StopLossConfig(option.stopLossId)
    IN  /\ config.isActive
        /\ FreshForStopLoss
        /\ IF option.isCall THEN oraclePrice <= config.stopLossPrice
           ELSE oraclePrice >= config.stopLossPrice

\* The stop-loss predicate of position id returns true.
StopLossIsClear(id) ==
    LET option == ProtectedOption(id)
        config == StopLossConfig(option.stopLossId)
    IN  \/ ~config.isActive
        \/ /\ FreshForStopLoss
           /\ IF option.isCall THEN oraclePrice > config.stopLossPrice
              ELSE oraclePrice < config.stopLossPrice

RECURSIVE SumMaking(_)
SumMaking(ids) ==
    IF ids = {} THEN 0
    ELSE LET id == CHOOSE x \in ids : TRUE
         IN  protectedOptions[id].makingAmount + SumMaking(ids \ {id})

\* The collateral of the active positions whose makerAsset is `token`.
EscrowOwed(token) ==
    SumMaking({id \in DOMAIN protectedOptions :
                 protectedOptions[id].isActive
                 /\ protectedOptions[id].makerAsset = token})

\* C1: a position is settled at most once.  A settled position stays settled;
\* a step that executes or cancels a position takes it from active to settled;
\* and on a settled position every executeProtectedOption and every
\* cancelProtectedOption reverts with OptionNotActive, which moves no asset.
C1_SingleSettlement ==
    [][\A id \in Ids :
        /\ Settled(id) =>
             /\ Settled(id)'
             /\ \A sender \in Users :
                  /\ cancelProtectedOptionErr(sender, id) = "OptionNotActive"
                  /\ cancelProtectedOption(sender, id) => UNCHANGED vars
                  /\ \A t \in AllTakingAmounts :
                       /\ executeProtectedOptionErr(sender, id, t) = "OptionNotActive"
                       /\ executeProtectedOption(sender, id, t) => UNCHANGED vars
        /\ \A sender \in Users :
             /\ (cancelProtectedOptionErr(sender, id) = ""
                 /\ cancelProtectedOption(sender, id))
                  => Active(id) /\ Settled(id)'
             /\ \A t \in AllTakingAmounts :
                  (executeProtectedOptionErr(sender, id, t) = ""
                   /\ executeProtectedOption(sender, id, t))
                    => Active(id) /\ Settled(id)'
      ]_vars

\* C1 witness: one position settled by execute and another by cancel.
C1_Witness ==
    \E i, j \in Ids : i \in executedOptions /\ Settled(i) /\ Cancelled(j)

\* C2: escrow solvency.  For every token the orchestrator holds at least the
\* sum of makingAmount over the active positions with that makerAsset.
C2_EscrowSolvency ==
    \A token \in Tokens : balances[token][MANAGER] >= EscrowOwed(token)

\* C2 witness: two active positions escrowed in the same token.
C2_Witness ==
    \E i, j \in Ids :
        /\ i # j /\ Active(i) /\ Active(j)
        /\ protectedOptions[i].makerAsset = protectedOptions[j].makerAsset
        /\ balances[protectedOptions[i].makerAsset][MANAGER]
             = protectedOptions[i].makingAmount + protectedOptions[j].makingAmount

\* C3: a successful cancelProtectedOption moves exactly the position's
\* makingAmount of makerAsset from the orchestrator to the maker, whoever the
\* caller is, and leaves the position and both of its engine configs inactive.
C3_CancelReturnsCollateral ==
    [][\A id \in Ids, sender \in Users :
        (cancelProtectedOptionErr(sender, id) = ""
         /\ cancelProtectedOption(sender, id))
          => LET option == protectedOptions[id]
             IN  /\ balances' = Moved(balances, option.makerAsset, MANAGER,
                                      option.maker, option.makingAmount)
                 /\ ~protectedOptions'[id].isActive
                 /\ ~OptionConfig(option.optionId)'.isActive
                 /\ ~StopLossConfig(option.stopLossId)'.isActive
      ]_vars

\* C3 witness: a cancelled position with both configs inactive whose maker
\* holds the collateral again.
C3_Witness ==
    \E id \in Ids :
        /\ Cancelled(id)
        /\ ~OptionConfig(protectedOptions[id].optionId).isActive
        /\ ~StopLossConfig(protectedOptions[id].stopLossId).isActive
        /\ balances[protectedOptions[id].makerAsset][protectedOptions[id].maker]
             = InitialBalance(protectedOptions[id].makerAsset,
                              protectedOptions[id].maker)

\* C4 (as claimed): on an active position, cancelProtectedOption by the maker
\* succeeds in every oracle state, and by any account once the position has
\* expired.
C4_CancelAlwaysAvailable ==
    \A id \in Ids :
        Active(id) =>
            /\ cancelProtectedOptionErr(protectedOptions[id].maker, id) = ""
            /\ Expired(id) =>
                 \A sender \in Users : cancelProtectedOptionErr(sender, id) = ""

\* C5: on an active position, cancelProtectedOption by an account that is not
\* the maker, before expiresAt and while the stop-loss predicate is true,
\* reverts with UnauthorizedAccess, and the call changes no position, config
\* or balance.
C5_CancelUnauthorized ==
    [][\A id \in Ids, sender \in Users :
        (/\ Active(id)
         /\ sender # protectedOptions[id].maker
         /\ ~Expired(id)
         /\ StopLossIsClear(id))
          => /\ cancelProtectedOptionErr(sender, id) = "UnauthorizedAccess"
             /\ cancelProtectedOption(sender, id) => UNCHANGED vars
      ]_vars

\* C5 witness: an active unexpired position with a clear stop-loss and a
\* caller other than its maker, whose cancel reverts with UnauthorizedAccess.
C5_Witness ==
    \E id \in Ids, sender \in Users :
        /\ Active(id)
        /\ sender # protectedOptions[id].maker
        /\ ~Expired(id)
        /\ StopLossConfig(protectedOptions[id].stopLossId).isActive
        /\ StopLossIsClear(id)
        /\ cancelProtectedOptionErr(sender, id) = "UnauthorizedAccess"

\* The payout the claim C8 names: the valuation engine's quote for the
\* orchestrator, capped at the position's makingAmount.
CappedQuote(id, takingAmount) ==
    LET option == ProtectedOption(id)
        quote == getMakingAmount(MANAGER, option.optionId, takingAmount).val
    IN  IF quote < option.makingAmount THEN quote ELSE option.makingAmount

\* C6: executeProtectedOption never succeeds while the stop-loss is triggered.
\* On an active, unexpired position with takingAmount >= minTakingAmount whose
\* fresh price is at or beyond the threshold, execute reverts with
\* StopLossTriggered, so the position stays active and no asset moves.
C6_NoExecuteWhenTriggered ==
    [][\A id \in Ids, sender \in Users, t \in AllTakingAmounts :
        (/\ Active(id)
         /\ ~Expired(id)
         /\ t >= protectedOptions[id].minTakingAmount
         /\ StopLossIsTriggered(id))
          => /\ executeProtectedOptionErr(sender, id, t) = "StopLossTriggered"
             /\ executeProtectedOption(sender, id, t) => UNCHANGED vars
      ]_vars

\* C6 witness: an active unexpired position that is in the money while its
\* stop-loss is triggered, and an execute that reverts with StopLossTriggered.
C6_Witness ==
    \E id \in Ids, sender \in Users, t \in TakingAmounts :
        /\ Active(id)
        /\ ~Expired(id)
        /\ StopLossIsTriggered(id)
        /\ isInTheMoney(protectedOptions[id].optionId) = Ret(TRUE)
        /\ executeProtectedOptionErr(sender, id, t) = "StopLossTriggered"

\* C7: on an active position at any time >= expiresAt, executeProtectedOption
\* reverts with OptionExpired for every caller and takingAmount and in every
\* oracle and stop-loss state, and the call changes nothing.
C7_NoExecuteWhenExpired ==
    [][\A id \in Ids, sender \in Users, t \in AllTakingAmounts :
        (Active(id) /\ Expired(id))
          => /\ executeProtectedOptionErr(sender, id, t) = "OptionExpired"
             /\ executeProtectedOption(sender, id, t) => UNCHANGED vars
      ]_vars

\* C7 witness: an active position exactly at expiresAt, with a fresh price
\* that is in the money and clear of the stop-loss, whose execute is refused.
C7_Witness ==
    \E id \in Ids, t \in TakingAmounts :
        /\ Active(id)
        /\ now = protectedOptions[id].expiresAt
        /\ StopLossConfig(protectedOptions[id].stopLossId).isActive
        /\ StopLossIsClear(id)
        /\ isInTheMoney(protectedOptions[id].optionId) = Ret(TRUE)
        /\ executeProtectedOptionErr("bob", id, t) = "OptionExpired"

\* C8: a successful executeProtectedOption(id, takingAmount) has
\* takingAmount >= minTakingAmount, moves takingAmount of takerAsset from the
\* caller to the maker and min(getMakingAmount, makingAmount) of makerAsset
\* from the orchestrator to the caller, and leaves the position inactive and
\* recorded in executedOptions.
C8_ExecuteSettlement ==
    [][\A id \in Ids, sender \in Users, t \in TakingAmounts :
        (executeProtectedOptionErr(sender, id, t) = ""
         /\ executeProtectedOption(sender, id, t))
          => LET option == protectedOptions[id]
                 paid == CappedQuote(id, t)
             IN  /\ t >= option.minTakingAmount
                 /\ paid <= option.makingAmount
                 /\ balances' =
                      Moved(Moved(balances, option.takerAsset, sender,
                                  option.maker, t),
                            option.makerAsset, MANAGER, sender, paid)
                 /\ ~protectedOptions'[id].isActive
                 /\ id \in executedOptions'
      ]_vars

\* C8 witness: a single execution in which the taker paid 600 and received the
\* whole collateral of 4, the engine's quote of 6 having been capped.
C8_Witness ==
    /\ Cardinality(executedOptions) = 1
    /\ \E id \in executedOptions :
         /\ Settled(id)
         /\ balances[protectedOptions[id].takerAsset]["bob"]
              = InitialBalance(protectedOptions[id].takerAsset, "bob") - 600
         /\ balances[protectedOptions[id].makerAsset]["bob"]
              = protectedOptions[id].makingAmount

\* C9: canExecuteOption reports the first failing check in the order
\* not-active, expired, stop-loss-triggered, out-of-the-money.  At or after
\* expiresAt an active position yields "Option expired" whatever the oracle
\* and stop-loss state; an active unexpired position with a triggered stop-loss
\* yields "Stop-loss triggered" also when out of the money.
C9_CanExecuteOrder ==
    \A id \in AllIds :
        LET r == canExecuteOption(id)
            Reports(reason) == r.err = "" /\ r.val = <<FALSE, reason>>
        IN  /\ ~Active(id) => Reports("Option not active")
            /\ (Active(id) /\ Expired(id)) => Reports("Option expired")
            /\ (Active(id) /\ ~Expired(id) /\ StopLossIsTriggered(id))
                 => Reports("Stop-loss triggered")
            /\ (/\ Active(id) /\ ~Expired(id) /\ StopLossIsClear(id)
                /\ isInTheMoney(protectedOptions[id].optionId) = Ret(FALSE))
                 => Reports("Option out of the money")
            /\ (/\ Active(id) /\ ~Expired(id) /\ StopLossIsClear(id)
                /\ isInTheMoney(protectedOptions[id].optionId) = Ret(TRUE))
                 => r = Ret(<<TRUE, "Can execute">>)

\* C9 witness: an expired active position and an unexpired active position,
\* both out of the money with a triggered stop-loss, reported as "Option
\* expired" and "Stop-loss triggered" respectively.
C9_Witness ==
    \E i, j \in Ids :
        /\ Active(i) /\ Expired(i) /\ StopLossIsTriggered(i)
        /\ isInTheMoney(protectedOptions[i].optionId) = Ret(FALSE)
        /\ canExecuteOption(i) = Ret(<<FALSE, "Option expired">>)
        /\ Active(j) /\ ~Expired(j) /\ StopLossIsTriggered(j)
        /\ isInTheMoney(protectedOptions[j].optionId) = Ret(FALSE)
        /\ canExecuteOption(j) = Ret(<<FALSE, "Stop-loss triggered">>)

\* canExecuteOption returns (true, "Can execute").
CanExecute(id) == canExecuteOption(id) = Ret(<<TRUE, "Can execute">>)

\* The caller holds and has approved takingAmount of the position's takerAsset.
TakerFunded(sender, id, takingAmount) ==
    /\ balances[protectedOptions[id].takerAsset][sender] >= takingAmount
    /\ allowances[protectedOptions[id].takerAsset][sender] >= takingAmount

CreateRefused(sender, a) ==
    \/ a.optionDuration < MIN_OPTION_DURATION
    \/ a.optionDuration > MAX_OPTION_DURATION
    \/ a.makingAmount = 0
    \/ a.minTakingAmount = 0
    \/ a.makerAsset = NULL
    \/ a.takerAsset = NULL
    \/ setOptionConfigErr(MANAGER, a.strikePrice, now + a.optionDuration,
                          a.oracle, DEFAULT_MULTIPLIER) # ""
    \/ configureStopLossErr(MANAGER, a.stopLossPrice, a.maxLoss,
                            DEFAULT_TIME_WINDOW, a.oracle) # ""
    \/ balances[a.makerAsset][sender] < a.makingAmount
    \/ allowances[a.makerAsset][sender] < a.makingAmount

\* C11: a failing createProtectedOption leaves no trace.  A create that is
\* refused for any of the reasons above reverts (a duration outside
\* [1 hour, 30 days] with InvalidOptionDuration) and changes no position,
\* counter, userOptions, engine config or balance.
C11_FailedCreateLeavesNoTrace ==
    [][\A sender \in Users, a \in CreateArgs :
        /\ (a.optionDuration < MIN_OPTION_DURATION
            \/ a.optionDuration > MAX_OPTION_DURATION)
             => createProtectedOptionErr(sender, a) = "InvalidOptionDuration"
        /\ CreateRefused(sender, a) => createProtectedOptionErr(sender, a) # ""
        /\ ((CreateRefused(sender, a) \/ createProtectedOptionErr(sender, a) # "")
            /\ createProtectedOption(sender, a))
             => UNCHANGED vars
      ]_vars

\* C11 witness: one position is recorded, the maker's remaining allowance no
\* longer covers a collateral of 9, and every refused create (all of
\* InvalidArgs) reverts; the records still show exactly the one position.
C11_Witness ==
    /\ protectedOptionCounter = 1
    /\ Cardinality(DOMAIN protectedOptions) = 1
    /\ Len(userOptions["alice"]) = 1
    /\ \A a \in InvalidArgs :
         CreateRefused("alice", a) /\ createProtectedOptionErr("alice", a) # ""
    /\ createProtectedOptionErr("alice", [BaseArgs EXCEPT !.makingAmount = 9])
         = "ERC20InsufficientAllowance"

\* C12: a successful createProtectedOption by M records, under a new id, a
\* position with maker M, isActive, createdAt = now, expiresAt = now + duration
\* and the given assets and amounts; registers an active OptionConfig with
\* expiration = expiresAt and multiplier 1, and an active StopLossConfig with
\* isLowerBound = isCall; and moves makingAmount of makerAsset from M to the
\* orchestrator.
C12_CreateRecordsPosition ==
    [][\A sender \in Users, a \in CreateArgs :
        (createProtectedOptionErr(sender, a) = ""
         /\ createProtectedOption(sender, a))
          => LET id == ProtectedOptionId(sender, now, protectedOptionCounter)
                 option == protectedOptions'[id]
                 optionConfig == optionConfigs'[option.optionId]
                 stopLossConfig == stopLossConfigs'[option.stopLossId]
             IN  /\ id \in DOMAIN protectedOptions'
                 /\ option.optionId \in DOMAIN optionConfigs'
                 /\ option.stopLossId \in DOMAIN stopLossConfigs'
                 /\ option.maker = sender
                 /\ option.isActive
                 /\ option.createdAt = now
                 /\ option.expiresAt = now + a.optionDuration
                 /\ option.isCall = a.isCall
                 /\ option.makerAsset = a.makerAsset
                 /\ option.takerAsset = a.takerAsset
                 /\ option.makingAmount = a.makingAmount
                 /\ option.minTakingAmount = a.minTakingAmount
                 /\ optionConfig.isActive
                 /\ optionConfig.expiration = option.expiresAt
                 /\ optionConfig.multiplier = 1
                 /\ optionConfig.isCall = a.isCall
                 /\ optionConfig.strikePrice = a.strikePrice
                 /\ stopLossConfig.isActive
                 /\ stopLossConfig.isLowerBound = a.isCall
                 /\ stopLossConfig.stopLossPrice = a.stopLossPrice
                 /\ balances' = Moved(balances, a.makerAsset, sender, MANAGER,
                                      a.makingAmount)
                 /\ balances'[a.makerAsset][MANAGER]
                      = balances[a.makerAsset][MANAGER] + a.makingAmount
      ]_vars

\* C12 witness: a call and a put have been created and are both active, the
\* call with a lower-bound and the put with an upper-bound stop-loss.
C12_Witness ==
    \E i, j \in Ids :
        /\ Active(i) /\ protectedOptions[i].isCall
        /\ StopLossConfig(protectedOptions[i].stopLossId).isLowerBound
        /\ Active(j) /\ ~protectedOptions[j].isCall
        /\ ~StopLossConfig(protectedOptions[j].stopLossId).isLowerBound
        /\ StopLossConfig(protectedOptions[j].stopLossId).isActive
        /\ balances["TK1"][MANAGER] = 8

\* C13: every recorded position has, in every reachable state,
\* 1 hour <= expiresAt - createdAt <= 30 days, makingAmount > 0,
\* minTakingAmount > 0 and non-null makerAsset and takerAsset.
C13_PositionWellFormed ==
    \A id \in DOMAIN protectedOptions :
        LET option == protectedOptions[id]
        IN  /\ option.expiresAt - option.createdAt >= 3600
            /\ option.expiresAt - option.createdAt <= 30 * 24 * 3600
            /\ option.makingAmount > 0
            /\ option.minTakingAmount > 0
            /\ option.makerAsset # NULL
            /\ option.takerAsset # NULL

\* C13 witness: a position of the minimum duration, settled, after creates
\* with out-of-range durations were attempted and refused.
C13_Witness ==
    \E id \in Ids :
        /\ Settled(id)
        /\ protectedOptions[id].expiresAt - protectedOptions[id].createdAt
             = MIN_OPTION_DURATION
        /\ now > protectedOptions[id].expiresAt - MIN_OPTION_DURATION

\* The stop-loss ids the properties range over: those of the recorded
\* positions and one that was never configured.
StopLossIds == {StopLossIdOf(id) : id \in AllIds}

\* C14: on an inactive StopLossConfig (deactivated or never configured)
\* stopLossPredicate returns true in every oracle state, without failing.
C14_InactivePredicateTrue ==
    \A stopLossId \in StopLossIds :
        ~StopLossConfig(stopLossId).isActive
          => stopLossPredicate(stopLossId) = Ret(TRUE)

\* C14 witness: a config deactivated by a cancel, in a state where the price is
\* both stale for the stop-loss engine and non-positive; the never-configured
\* id has no oracle.
C14_Witness ==
    \E id \in Ids :
        /\ Cancelled(id)
        /\ StopLossIdOf(id) \in DOMAIN stopLossConfigs
        /\ ~stopLossConfigs[StopLossIdOf(id)].isActive
        /\ now - oracleUpdatedAt > SL_MAX_PRICE_AGE
        /\ oraclePrice <= 0
        /\ StopLossConfig(StopLossIdOf(UnknownId)).oracle = NULL
        /\ stopLossPredicate(StopLossIdOf(id)) = Ret(TRUE)

\* C15: for an active StopLossConfig and a fresh positive price p,
\* stopLossPredicate returns (p > stopLossPrice) for a lower bound and
\* (p < stopLossPrice) for an upper bound; at p = stopLossPrice it returns
\* false in both directions.
C15_PredicateStrict ==
    \A stopLossId \in StopLossIds :
        LET config == StopLossConfig(stopLossId)
        IN  (config.isActive /\ FreshForStopLoss)
              => /\ stopLossPredicate(stopLossId)
                      = Ret(IF config.isLowerBound
                            THEN oraclePrice > config.stopLossPrice
                            ELSE oraclePrice < config.stopLossPrice)
                 /\ oraclePrice = config.stopLossPrice
                      => stopLossPredicate(stopLossId) = Ret(FALSE)

\* C15 witness: an active lower-bound and an active upper-bound config while
\* the fresh price equals the threshold of both.
C15_Witness ==
    \E i, j \in StopLossIds :
        /\ StopLossConfig(i).isActive /\ StopLossConfig(i).isLowerBound
        /\ StopLossConfig(j).isActive /\ ~StopLossConfig(j).isLowerBound
        /\ FreshForStopLoss
        /\ oraclePrice = StopLossConfig(i).stopLossPrice
        /\ oraclePrice = StopLossConfig(j).stopLossPrice

\* The engines in direct use: configs are written and deactivated by their
\* callers while the feed and the clock move and payloads reach the adapter.
NextEngine ==
    \/ SetOptionConfig \/ DeactivateOption \/ ConfigureStopLoss
    \/ DeactivateStopLoss \/ SetLatestPrice \/ IncreaseTime
    \/ SubmitEncoded \/ SubmitRaw
SpecEngine == Init /\ [][NextEngine]_vars

(***************************************************************************)
(* Staleness of the price, per engine.                                     *)
(***************************************************************************)
PriceAge == now - oracleUpdatedAt
ActiveOptionIds == {id \in DOMAIN optionConfigs : optionConfigs[id].isActive}
ActiveStopLossIds == {id \in DOMAIN stopLossConfigs : stopLossConfigs[id].isActive}
AuthorizedCalcCallers == {c \in EngineCallers \cup {ADAPTER} : Calc_onlyAuthorized(c)}
AuthorizedSLCallers == {c \in EngineCallers \cup {ADAPTER} : SL_onlyAuthorized(c)}
StaleStopLossQueries(id) ==
    /\ stopLossPredicate(id).err = "StalePrice"
    /\ \A c \in AuthorizedSLCallers : checkStopLoss(c, id).err = "StalePrice"
FreshStopLossQueries(id) ==
    /\ stopLossPredicate(id).err # "StalePrice"
    /\ \A c \in AuthorizedSLCallers : checkStopLoss(c, id).err # "StalePrice"
StaleValuationViews(id) ==
    /\ isInTheMoney(id).err = "StalePrice"
    /\ getIntrinsicValue(id).err = "StalePrice"
FreshValuationViews(id) ==
    /\ isInTheMoney(id).err # "StalePrice"
    /\ getIntrinsicValue(id).err # "StalePrice"
StaleValuationQuotes(id) ==
    \A c \in AuthorizedCalcCallers :
        /\ \A t \in TakingAmounts : getMakingAmount(c, id, t).err = "StalePrice"
        /\ getTakingAmount(c, id, BaseArgs.makingAmount).err = "StalePrice"
FreshValuationQuotes(id) ==
    \A c \in AuthorizedCalcCallers :
        /\ \A t \in TakingAmounts : getMakingAmount(c, id, t).err # "StalePrice"
        /\ getTakingAmount(c, id, BaseArgs.makingAmount).err # "StalePrice"
ValuationSucceeds(id) ==
    /\ isInTheMoney(id).err = ""
    /\ getIntrinsicValue(id).err = ""
    /\ \A c \in AuthorizedCalcCallers :
          /\ \A t \in TakingAmounts : getMakingAmount(c, id, t).err = ""
          /\ getTakingAmount(c, id, BaseArgs.makingAmount).err = ""

Decodes == decodeExtraData(extraData).err = ""
Decoded == decodeExtraData(extraData).val
Min(a, b) == IF a < b THEN a ELSE b

\* The conditions under which the predicate answers true, read from the
\* state: the payload decodes, the option config is active, the price is
\* fresh for valuation and positive, the option is in the money, and the
\* stop-loss is either not enforced or answers true.
PredicateConditions ==
    /\ Decodes
    /\ OptionConfig(Decoded.optionId).isActive
    /\ PriceAge <= CALC_MAX_PRICE_AGE
    /\ oraclePrice > 0
    /\ calculateIntrinsicValue(OptionConfig(Decoded.optionId), oraclePrice)
          > MIN_INTRINSIC_VALUE
    /\ \/ ~Decoded.enforceStopLoss
       \/ stopLossPredicate(Decoded.stopLossId) = Ret(TRUE)

\* C17: protectedOptionPredicate never fails: for every payload, config
\* state and oracle state it returns a boolean; it returns true iff the
\* payload decodes, the option config is active with a fresh valid price and
\* is in the money, and either enforceStopLoss is false or
\* stopLossPredicate(stopLossId) returns true; every failure of the inner
\* evaluation yields false.
C17_PredicateNeverFails ==
    /\ protectedOptionPredicate(extraData).err = ""
    /\ protectedOptionPredicate(extraData).val \in BOOLEAN
    /\ protectedOptionPredicate(extraData).val <=> PredicateConditions
    /\ internalProtectedOptionPredicate(extraData).err # "" =>
          protectedOptionPredicate(extraData) = Ret(FALSE)

\* A well-formed payload names an active, in-the-money option whose price is
\* too old for valuation: the inner evaluation fails with StalePrice and the
\* predicate answers false.
C17_Witness ==
    /\ Decodes
    /\ Decoded.optionId \in ActiveOptionIds
    /\ internalProtectedOptionPredicate(extraData).err = "StalePrice"
    /\ protectedOptionPredicate(extraData) = Ret(FALSE)

\* C18: whenever the adapter's getMakingAmount returns, the amount returned
\* is at most remainingMakingAmount and equals the smaller of
\* OptionsCalculator.getMakingAmount(optionId, takingAmount) and
\* remainingMakingAmount.
C18_AdapterQuoteCapped ==
    \A t \in TakingAmounts, r \in RemainingAmounts :
        Adapter_getMakingAmount(extraData, t, r).err = "" =>
            /\ Decodes
            /\ getMakingAmount(ADAPTER, Decoded.optionId, t).err = ""
            /\ Adapter_getMakingAmount(extraData, t, r).val <= r
            /\ Adapter_getMakingAmount(extraData, t, r).val =
                  Min(getMakingAmount(ADAPTER, Decoded.optionId, t).val, r)

\* The adapter returns a quote that the cap has lowered: the valuation
\* engine's amount exceeds remainingMakingAmount.
C18_Witness ==
    \E t \in TakingAmounts, r \in RemainingAmounts :
        /\ Adapter_getMakingAmount(extraData, t, r) = Ret(r)
        /\ getMakingAmount(ADAPTER, Decoded.optionId, t).err = ""
        /\ getMakingAmount(ADAPTER, Decoded.optionId, t).val > r

\* What the getters answer when the stop-loss engine is left out.
QuoteWithoutStopLoss(t, r) ==
    LET quote == getMakingAmount(ADAPTER, Decoded.optionId, t)
    IN  IF quote.err # "" THEN quote
        ELSE IF quote.val < Decoded.minPayoff THEN Revert("InsufficientPayoff")
        ELSE Ret(Min(quote.val, r))

\* C19: for a payload with enforceStopLoss = true whose
\* stopLossPredicate(stopLossId) is false, the adapter's getMakingAmount and
\* getTakingAmount fail with StopLossTriggered; with enforceStopLoss = false
\* the stop-loss engine is not consulted: the getters answer what the
\* valuation engine answers, whatever the state of the stop-loss.
C19_EnforcedStopLossBlocksQuotes ==
    Decodes =>
        /\ ( /\ Decoded.enforceStopLoss
             /\ stopLossPredicate(Decoded.stopLossId) = Ret(FALSE) ) =>
               /\ \A t \in TakingAmounts, r \in RemainingAmounts :
                     Adapter_getMakingAmount(extraData, t, r).err
                       = "StopLossTriggered"
               /\ Adapter_getTakingAmount(extraData, BaseArgs.makingAmount).err
                     = "StopLossTriggered"
        /\ ~Decoded.enforceStopLoss =>
               /\ \A t \in TakingAmounts, r \in RemainingAmounts :
                     Adapter_getMakingAmount(extraData, t, r)
                       = QuoteWithoutStopLoss(t, r)
               /\ Adapter_getTakingAmount(extraData, BaseArgs.makingAmount)
                     = getTakingAmount(ADAPTER, Decoded.optionId,
                                       BaseArgs.makingAmount)

\* An enforced stop-loss is triggered on an active, unexpired option config
\* that the valuation engine would quote: both getters refuse.
C19_Witness ==
    /\ Decodes
    /\ Decoded.enforceStopLoss
    /\ Decoded.stopLossId \in ActiveStopLossIds
    /\ stopLossPredicate(Decoded.stopLossId) = Ret(FALSE)
    /\ getTakingAmount(ADAPTER, Decoded.optionId, BaseArgs.makingAmount).err = ""
    /\ Adapter_getTakingAmount(extraData, BaseArgs.makingAmount).err
          = "StopLossTriggered"
    /\ \A t \in TakingAmounts, r \in RemainingAmounts :
          Adapter_getMakingAmount(extraData, t, r).err = "StopLossTriggered"

\* The four fields as the decoder returns them.
ProtectedOptionData(optionId, stopLossId, minPayoff, enforceStopLoss) ==
    [optionId |-> optionId, stopLossId |-> stopLossId,
     minPayoff |-> minPayoff, enforceStopLoss |-> enforceStopLoss]
RoundTripOptionIds == PayloadOptionIds \cup {OptionIdOf(id) : id \in Ids}
RoundTripStopLossIds == PayloadStopLossIds \cup StopLossIds
RoundTripPayoffs == MinPayoffs \cup {1, 150}

Max(a, b) == IF a > b THEN a ELSE b
FreshForValuation == PriceAge <= CALC_MAX_PRICE_AGE /\ oraclePrice > 0
KnownOptionIds == DOMAIN optionConfigs \cup {OptionIdOf(UnknownId)}

\* C21: on an active OptionConfig with a fresh positive price p, isInTheMoney
\* returns true iff p > strikePrice + 1e6 for a call and iff
\* strikePrice > p + 1e6 for a put, and getIntrinsicValue returns
\* max(p - strikePrice, 0) for a call and max(strikePrice - p, 0) for a put
\* (with p); on an inactive or unknown config both fail with
\* InvalidOptionConfig.
C21_InTheMoneyStrict ==
    \A id \in KnownOptionIds :
        IF ~OptionConfig(id).isActive
        THEN /\ isInTheMoney(id) = Revert("InvalidOptionConfig")
             /\ getIntrinsicValue(id) = Revert("InvalidOptionConfig")
        ELSE FreshForValuation =>
             IF OptionConfig(id).isCall
             THEN /\ isInTheMoney(id) =
                       Ret(oraclePrice > OptionConfig(id).strikePrice
                                           + MIN_INTRINSIC_VALUE)
                  /\ getIntrinsicValue(id) =
                       Ret(<<Max(oraclePrice - OptionConfig(id).strikePrice, 0),
                             oraclePrice>>)
             ELSE /\ isInTheMoney(id) =
                       Ret(OptionConfig(id).strikePrice
                             > oraclePrice + MIN_INTRINSIC_VALUE)
                  /\ getIntrinsicValue(id) =
                       Ret(<<Max(OptionConfig(id).strikePrice - oraclePrice, 0),
                             oraclePrice>>)

\* An active put whose intrinsic value is exactly 1e6 at a fresh price: it is
\* not in the money.
C21_Witness ==
    /\ DirectOptionId \in ActiveOptionIds
    /\ ~optionConfigs[DirectOptionId].isCall
    /\ FreshForValuation
    /\ getIntrinsicValue(DirectOptionId) = Ret(<<MIN_INTRINSIC_VALUE, oraclePrice>>)
    /\ isInTheMoney(DirectOptionId) = Ret(FALSE)

\* The valuation engine with configs of several premiums and multipliers.
NextQuote ==
    \/ SetQuoteConfig \/ DeactivateOption \/ SetLatestPrice \/ IncreaseTime
SpecQuote == Init /\ [][NextQuote]_vars

\* r is the floor of n / d.
IsFloor(r, n, d) == r * d <= n /\ n - r * d < d
IntrinsicOf(id) ==
    IF OptionConfig(id).isCall
    THEN Max(oraclePrice - OptionConfig(id).strikePrice, 0)
    ELSE Max(OptionConfig(id).strikePrice - oraclePrice, 0)

\* C22: getMakingAmount(id, t) from an authorized caller fails with
\* InvalidOptionConfig on an inactive config and with OptionExpired on an
\* active one at or after its expiration; on an active, unexpired config with
\* a fresh price it returns floor(t * intrinsicValue * multiplier /
\* (strikePrice * 100)) when intrinsicValue > 1e6 and floor(t * premium /
\* 1e18) otherwise.
C22_MakingAmountFormula ==
    \A id \in KnownOptionIds, t \in QuoteTakingAmounts,
       c \in AuthorizedCalcCallers :
        IF ~OptionConfig(id).isActive
        THEN getMakingAmount(c, id, t) = Revert("InvalidOptionConfig")
        ELSE IF now >= OptionConfig(id).expiration
        THEN getMakingAmount(c, id, t) = Revert("OptionExpired")
        ELSE FreshForValuation =>
             /\ getMakingAmount(c, id, t).err = ""
             /\ IF IntrinsicOf(id) > MIN_INTRINSIC_VALUE
                THEN IsFloor(getMakingAmount(c, id, t).val,
                             t * IntrinsicOf(id) * OptionConfig(id).multiplier,
                             OptionConfig(id).strikePrice * 100)
                ELSE IsFloor(getMakingAmount(c, id, t).val,
                             t * OptionConfig(id).premium, WAD)

\* An active, unexpired call with multiplier 100 is in the money by 2e6 at a
\* fresh price: 7 * 2e6 * 100 / (3e6 * 100) = 4.67 is quoted as 4.
C22_Witness ==
    /\ DirectOptionId \in ActiveOptionIds
    /\ now < optionConfigs[DirectOptionId].expiration
    /\ FreshForValuation
    /\ optionConfigs[DirectOptionId].multiplier = MAX_MULTIPLIER
    /\ IntrinsicOf(DirectOptionId) = 2000000
    /\ getMakingAmount(OWNER, DirectOptionId, 7) = Ret(4)

(***************************************************************************)
(* Authorization.                                                          *)
(***************************************************************************)
\* The engines while their caller lists change.
NextAuth ==
    \/ SetOptionConfig \/ DeactivateOption \/ ConfigureStopLoss
    \/ DeactivateStopLoss \/ SetEngineAuthorizedCaller
SpecAuth == Init /\ [][NextAuth]_vars

CalcStranger(c) == c # OWNER /\ c \notin calcAuthorized
SLStranger(c) == c # OWNER /\ c \notin slAuthorized

\* The gated calls of the two engines, from caller c, with arguments that
\* pass every other test.
CalcCallsRefused(c) ==
    /\ setOptionConfigErr(c, BaseArgs.strikePrice, LateExpiration, ORACLE,
                          DEFAULT_MULTIPLIER) = "UnauthorizedCaller"
    /\ deactivateOptionErr(c) = "UnauthorizedCaller"
    /\ \A t \in TakingAmounts :
          getMakingAmount(c, DirectOptionId, t) = Revert("UnauthorizedCaller")
    /\ getTakingAmount(c, DirectOptionId, BaseArgs.makingAmount)
          = Revert("UnauthorizedCaller")
SLCallsRefused(c) ==
    /\ configureStopLossErr(c, BaseArgs.stopLossPrice, BaseArgs.maxLoss,
                            DEFAULT_TIME_WINDOW, ORACLE) = "UnauthorizedCaller"
    /\ deactivateStopLossErr(c) = "UnauthorizedCaller"
    /\ checkStopLoss(c, DirectStopLossId) = Revert("UnauthorizedCaller")
CalcCallsPassGate(c) ==
    /\ setOptionConfigErr(c, BaseArgs.strikePrice, LateExpiration, ORACLE,
                          DEFAULT_MULTIPLIER) = ""
    /\ deactivateOptionErr(c) = ""
    /\ \A t \in TakingAmounts :
          getMakingAmount(c, DirectOptionId, t).err # "UnauthorizedCaller"
    /\ getTakingAmount(c, DirectOptionId, BaseArgs.makingAmount).err
          # "UnauthorizedCaller"
SLCallsPassGate(c) ==
    /\ configureStopLossErr(c, BaseArgs.stopLossPrice, BaseArgs.maxLoss,
                            DEFAULT_TIME_WINDOW, ORACLE) = ""
    /\ deactivateStopLossErr(c) = ""
    /\ checkStopLoss(c, DirectStopLossId).err # "UnauthorizedCaller"

\* A mutating call of an engine made by caller c.
CalcMutation(c) ==
    \/ \E isCall \in BOOLEAN, expiration \in Expirations :
          setOptionConfig(c, DirectOptionId, isCall, BaseArgs.strikePrice,
                          BaseArgs.premium, expiration, ORACLE, DEFAULT_MULTIPLIER)
    \/ deactivateOption(c, DirectOptionId)
SLMutation(c) ==
    \/ \E isLowerBound \in BOOLEAN :
          configureStopLoss(c, DirectStopLossId, BaseArgs.stopLossPrice,
                            BaseArgs.maxLoss, DEFAULT_TIME_WINDOW, ORACLE,
                            isLowerBound)
    \/ deactivateStopLoss(c, DirectStopLossId)

\* C23: setOptionConfig, deactivateOption, getMakingAmount, getTakingAmount
\* and configureStopLoss, deactivateStopLoss, checkStopLoss, called by an
\* account that is neither the engine's owner nor in its authorizedCallers,
\* fail with UnauthorizedCaller and change no state; the owner passes the
\* gate whether listed or not; setAuthorizedCaller fails for every account
\* but the owner, and the lists change only by the owner's call.
C23_AuthorizationGate ==
    /\ [](\A c \in EngineCallers :
            /\ CalcStranger(c) => CalcCallsRefused(c)
            /\ SLStranger(c) => SLCallsRefused(c)
            /\ c # OWNER => setAuthorizedCallerErr(c) # "")
    /\ [](CalcCallsPassGate(OWNER) /\ SLCallsPassGate(OWNER)
            /\ setAuthorizedCallerErr(OWNER) = "")
    /\ [][ /\ \A c \in EngineCallers :
               /\ CalcStranger(c) /\ CalcMutation(c) => UNCHANGED vars
               /\ SLStranger(c) /\ SLMutation(c) => UNCHANGED vars
           /\ calcAuthorized' # calcAuthorized =>
                 \E caller \in EngineCallers, b \in BOOLEAN :
                     Calc_setAuthorizedCaller(OWNER, caller, b)
           /\ slAuthorized' # slAuthorized =>
                 \E caller \in EngineCallers, b \in BOOLEAN :
                     SL_setAuthorizedCaller(OWNER, caller, b) ]_vars

\* The owner has unlisted itself on both engines and has written a config on
\* each; another account is on neither list, so its calls are refused while
\* the owner's pass.
C23_Witness ==
    /\ OWNER \notin calcAuthorized
    /\ OWNER \notin slAuthorized
    /\ CalcStranger("bob") /\ CalcCallsRefused("bob")
    /\ SLStranger("bob") /\ SLCallsRefused("bob")
    /\ CalcCallsPassGate(OWNER) /\ SLCallsPassGate(OWNER)
    /\ DirectOptionId \in ActiveOptionIds
    /\ DirectStopLossId \in ActiveStopLossIds

(***************************************************************************)
(* Re-entrancy.                                                            *)
(***************************************************************************)
CreateEnter == \E sender \in Makers, a \in ValidArgs : createEnter(sender, a)
ExecuteEnter ==
    \E sender \in Users, id \in Ids, t \in TakingAmounts :
        executeEnter(sender, id, t)
CancelEnter == \E sender \in Users, id \in Ids : cancelEnter(sender, id)
ReenterCreate == \E sender \in Makers, a \in ValidArgs : reenterCreate(sender, a)
ReenterExecute ==
    \E sender \in Users, id \in Ids, t \in TakingAmounts :
        reenterExecute(sender, id, t)
ReenterCancel == \E sender \in Users, id \in Ids : reenterCancel(sender, id)

\* The orchestrator with its entry points interrupted at their transfers;
\* the feed and the clock move between transactions only.
NextReentrant ==
    \/ CreateEnter \/ createLeave
    \/ ExecuteEnter \/ executeLeave
    \/ CancelEnter \/ cancelLeave
    \/ ReenterCreate \/ ReenterExecute \/ ReenterCancel
    \/ (frame = NoFrame /\ SetLatestPrice)
    \/ (frame = NoFrame /\ AdvanceTime)
SpecReentrant == Init /\ [][NextReentrant]_vars

InProgress == frame # NoFrame
\* The collateral owed to the active positions other than the one whose
\* settlement is in progress (its transfer out has been made).
EscrowOwedToOthers(token) ==
    SumMaking({id \in DOMAIN protectedOptions :
                 /\ protectedOptions[id].isActive
                 /\ protectedOptions[id].makerAsset = token
                 /\ ~(frame.op \in {"execute", "cancel"} /\ id = frame.id)})

\* C24: while createProtectedOption, executeProtectedOption or
\* cancelProtectedOption is in progress, every nested call to create, execute
\* or cancel fails and changes nothing: the only step that changes state is
\* the completion of the call in progress, which moves no token; so the
\* orchestrator always holds the collateral of every other active position
\* and no position's escrow is paid out twice.
C24_ReentrancyRejected ==
    /\ [](InProgress => nonReentrantErr = "ReentrancyGuardReentrantCall")
    /\ [](\A token \in Tokens :
            balances[token][MANAGER] >= EscrowOwedToOthers(token))
    /\ [][InProgress =>
            /\ \A sender \in Users :
                  /\ \A a \in ValidArgs :
                        reenterCreate(sender, a) => UNCHANGED vars
                  /\ \A id \in Ids :
                        /\ reenterCancel(sender, id) => UNCHANGED vars
                        /\ \A t \in TakingAmounts :
                              reenterExecute(sender, id, t) => UNCHANGED vars
            /\ frame' = NoFrame
            /\ UNCHANGED <<tokenVars, engineVars, userOptions,
                           protectedOptionCounter>>
            /\ \A id \in Ids \ {frame.id} :
                  protectedOptions'[id] = protectedOptions[id] ]_vars

\* An execution has made its transfers and has not yet marked the position:
\* the position is still active, a second one is escrowed, and the maker's
\* cancel of the position would pass every test but the guard.
C24_Witness ==
    /\ frame.op = "execute"
    /\ Active(frame.id)
    /\ \E other \in Ids : other # frame.id /\ Active(other)
    /\ cancelProtectedOptionErr(protectedOptions[frame.id].maker, frame.id) = ""
    /\ nonReentrantErr = "ReentrancyGuardReentrantCall"

(***************************************************************************)
(* Several stop-losses at once.                                            *)
(***************************************************************************)
\* The lists handed to multiStopLossPredicate: up to two ids, among them ids
\* that were never configured.
StopLossIdLists ==
    {<<>>} \cup {<<a>> : a \in StopLossIds}
           \cup {<<a, b>> : a \in StopLossIds, b \in StopLossIds}
Holds(stopLossId) == stopLossPredicate(stopLossId) = Ret(TRUE)
Fails(stopLossId) == stopLossPredicate(stopLossId).err # ""
\* The ids of a list that end the evaluation: a failing id, or an id whose
\* answer decides (false under requireAll, true otherwise).
Stops(l, requireAll) ==
    {i \in 1..Len(l) :
        Fails(l[i]) \/ stopLossPredicate(l[i]) = Ret(~requireAll)}
FirstStop(l, requireAll) ==
    CHOOSE i \in Stops(l, requireAll) : \A j \in Stops(l, requireAll) : i <= j

\* C25 as stated: true on the empty list; on a non-empty list with
\* requireAll it returns true iff stopLossPredicate is true for every id, and
\* without requireAll iff it is true for at least one id.
C25_MultiPredicateIff ==
    \A l \in StopLossIdLists :
        /\ Len(l) = 0 =>
              \A requireAll \in BOOLEAN :
                  multiStopLossPredicate(l, requireAll) = Ret(TRUE)
        /\ Len(l) > 0 =>
              /\ multiStopLossPredicate(l, TRUE) = Ret(TRUE)
                   <=> \A i \in 1..Len(l) : Holds(l[i])
              /\ multiStopLossPredicate(l, FALSE) = Ret(TRUE)
                   <=> \E i \in 1..Len(l) : Holds(l[i])

\* C25, amended: multiStopLossPredicate returns true on the empty list for
\* both values of requireAll.  On a non-empty list it asks the ids in order
\* and stops at the first id that fails or decides: if an id fails first,
\* the failure propagates; if an id decides first, the answer is false under
\* requireAll and true otherwise, and no later id is asked; if no id stops
\* the evaluation the answer is true under requireAll and false otherwise.
\* So with requireAll it returns true iff stopLossPredicate is true for every
\* id, and without requireAll iff it is true for some id and returns false
\* for every id before the first such one.
C25_MultiPredicateInOrder ==
    \A l \in StopLossIdLists, requireAll \in BOOLEAN :
        /\ Len(l) = 0 => multiStopLossPredicate(l, requireAll) = Ret(TRUE)
        /\ Len(l) > 0 =>
              /\ IF Stops(l, requireAll) = {}
                 THEN multiStopLossPredicate(l, requireAll) = Ret(requireAll)
                 ELSE IF Fails(l[FirstStop(l, requireAll)])
                 THEN multiStopLossPredicate(l, requireAll)
                        = stopLossPredicate(l[FirstStop(l, requireAll)])
                 ELSE multiStopLossPredicate(l, requireAll) = Ret(~requireAll)
              /\ multiStopLossPredicate(l, TRUE) = Ret(TRUE)
                   <=> \A i \in 1..Len(l) : Holds(l[i])
              /\ multiStopLossPredicate(l, FALSE) = Ret(TRUE)
                   <=> \E i \in 1..Len(l) :
                         /\ Holds(l[i])
                         /\ \A j \in 1..(i - 1) :
                               stopLossPredicate(l[j]) = Ret(FALSE)

\* One position is cancelled, so its stop-loss answers true, and the other is
\* active with a price too old: asked in that order without requireAll the
\* answer is true and the stale id is not reached; in the other order the
\* failure propagates.
C25_Witness ==
    \E i, j \in Ids :
        /\ Cancelled(i) /\ Active(j)
        /\ stopLossPredicate(StopLossIdOf(j)).err = "StalePrice"
        /\ multiStopLossPredicate(<<StopLossIdOf(i), StopLossIdOf(j)>>, FALSE)
             = Ret(TRUE)
        /\ multiStopLossPredicate(<<StopLossIdOf(j), StopLossIdOf(i)>>, FALSE)
             = Revert("StalePrice")

(***************************************************************************)
(* Settlement and the engines' configs.                                    *)
(***************************************************************************)
\* C26: after a successful executeProtectedOption, as after a successful
\* cancelProtectedOption, the position's StopLossConfig has isActive = false:
\* every settled position's stop-loss config is inactive.
C26_SettlementDeactivatesStopLoss ==
    \A id \in Ids :
        Settled(id) => ~StopLossConfig(protectedOptions[id].stopLossId).isActive

\* C27: the orchestrator's token balances change only through create
\* (transfer in) and execute or cancel (transfer out): while a position is
\* active, a step that lowers a balance of the orchestrator is an execute or a
\* cancel, and a step that raises one is a create.
C27_OnlySettlementMovesEscrow ==
    [][\A token \in Tokens :
         (\E id \in Ids : Active(id)) =>
            /\ balances'[token][MANAGER] < balances[token][MANAGER]
                 => Execute \/ Cancel
            /\ balances'[token][MANAGER] > balances[token][MANAGER]
                 => Create]_vars

\* Entry prices handed to calculateDynamicStopLoss.
EntryPrices == {200000}

\* C28: calculateDynamicStopLoss and getPriceInfo are authorized-only:
\* called on an active config by an account that is neither the stop-loss
\* engine's owner nor an authorized caller, each fails with
\* UnauthorizedCaller.
C28_DiagnosticsGated ==
    \A c \in EngineCallers :
        SLStranger(c) /\ DirectStopLossId \in ActiveStopLossIds =>
            /\ \A e \in EntryPrices :
                  calculateDynamicStopLoss(c, DirectStopLossId, e)
                    = Revert("UnauthorizedCaller")
            /\ getPriceInfo(c, DirectStopLossId) = Revert("UnauthorizedCaller")

\* C29: on an active StopLossConfig with a fresh positive price,
\* stopLossPredicate(id) is the negation of checkStopLoss(id) (asked by an
\* authorized caller) for every price and both bound directions; at a price
\* equal to stopLossPrice checkStopLoss is true and stopLossPredicate false.
C29_PredicateNegatesCheck ==
    \A id \in ActiveStopLossIds, c \in AuthorizedSLCallers :
        (PriceAge <= SL_MAX_PRICE_AGE /\ oraclePrice > 0) =>
            /\ stopLossPredicate(id).err = ""
            /\ checkStopLoss(c, id).err = ""
            /\ stopLossPredicate(id).val = ~checkStopLoss(c, id).val
            /\ oraclePrice = stopLossConfigs[id].stopLossPrice =>
                  /\ checkStopLoss(c, id) = Ret(TRUE)
                  /\ stopLossPredicate(id) = Ret(FALSE)

\* An active upper-bound stop-loss at a fresh price equal to its threshold:
\* checkStopLoss answers true and stopLossPredicate false.
C29_Witness ==
    /\ DirectStopLossId \in ActiveStopLossIds
    /\ ~stopLossConfigs[DirectStopLossId].isLowerBound
    /\ PriceAge <= SL_MAX_PRICE_AGE
    /\ oraclePrice = stopLossConfigs[DirectStopLossId].stopLossPrice
    /\ checkStopLoss(OWNER, DirectStopLossId) = Ret(TRUE)
    /\ stopLossPredicate(DirectStopLossId) = Ret(FALSE)

(***************************************************************************)
(* The adapter's minimum payoff.                                           *)
(***************************************************************************)
\* The stop-loss lets the adapter's getMakingAmount through to the quote.
StopLossLetsThrough ==
    \/ ~Decoded.enforceStopLoss
    \/ stopLossPredicate(Decoded.stopLossId) = Ret(TRUE)

\* C30 as stated: whenever the adapter's getMakingAmount returns, the amount
\* returned is at least minPayoff of the decoded payload, for every
\* remainingMakingAmount.
C30_ReturnedAtLeastMinPayoff ==
    \A t \in TakingAmounts, r \in RemainingAmounts :
        Adapter_getMakingAmount(extraData, t, r).err = "" =>
            Adapter_getMakingAmount(extraData, t, r).val >= Decoded.minPayoff

\* C30, amended: the minimum payoff is enforced on the valuation engine's
\* quote, before the cap.  When the quote is below minPayoff the adapter
\* fails with InsufficientPayoff for every remainingMakingAmount; whenever it
\* returns, the quote is at least minPayoff and the amount returned, the
\* smaller of the quote and remainingMakingAmount, is at least the smaller of
\* minPayoff and remainingMakingAmount: at least minPayoff when
\* remainingMakingAmount >= minPayoff, and remainingMakingAmount otherwise.
C30_MinPayoffBeforeCap ==
    \A t \in TakingAmounts, r \in RemainingAmounts :
        /\ Adapter_getMakingAmount(extraData, t, r).err = "" =>
              /\ getMakingAmount(ADAPTER, Decoded.optionId, t).val
                    >= Decoded.minPayoff
              /\ Adapter_getMakingAmount(extraData, t, r).val
                    >= Min(Decoded.minPayoff, r)
              /\ r >= Decoded.minPayoff =>
                    Adapter_getMakingAmount(extraData, t, r).val
                      >= Decoded.minPayoff
              /\ r < Decoded.minPayoff =>
                    Adapter_getMakingAmount(extraData, t, r).val = r
        /\ ( /\ Decodes
             /\ StopLossLetsThrough
             /\ getMakingAmount(ADAPTER, Decoded.optionId, t).err = ""
             /\ getMakingAmount(ADAPTER, Decoded.optionId, t).val
                   < Decoded.minPayoff ) =>
              Adapter_getMakingAmount(extraData, t, r)
                = Revert("InsufficientPayoff")

\* The payload asks for a minimum payoff of 3, the quote meets it, and
\* remainingMakingAmount is 0: the adapter returns 0.
C30_Witness ==
    /\ Decodes
    /\ Decoded.minPayoff = 3
    /\ \E t \in TakingAmounts :
          /\ getMakingAmount(ADAPTER, Decoded.optionId, t).err = ""
          /\ getMakingAmount(ADAPTER, Decoded.optionId, t).val >= 3
          /\ Adapter_getMakingAmount(extraData, t, 0) = Ret(0)

\* The adapter's status of position id, asked with the position's own
\* optionId and stopLossId.
StatusOf(id) ==
    getProtectedOptionStatus(ProtectedOption(id).optionId,
                             ProtectedOption(id).stopLossId)

\* C31: getProtectedOptionStatus returns canExecute = isInTheMoney(optionId)
\* AND stopLossPredicate(stopLossId), whatever the time: it succeeds exactly
\* when both engine views succeed.  It is not canExecuteOption: for an active
\* position at a time >= expiresAt whose option is in the money at a usable
\* price and whose stop-loss predicate is true, the adapter reports
\* canExecute = true while canExecuteOption returns (false, "Option expired").
C31_StatusIgnoresExpiry ==
    \A id \in Ids :
        LET option == ProtectedOption(id)
            inTheMoney == isInTheMoney(option.optionId)
            predicate == stopLossPredicate(option.stopLossId)
        IN  /\ (StatusOf(id).err = "")
                  <=> (inTheMoney.err = "" /\ predicate.err = "")
            /\ StatusOf(id).err = ""
                  => /\ StatusOf(id).val.canExecute
                          = (inTheMoney.val /\ predicate.val)
                     /\ StatusOf(id).val.stopLossStatus = predicate.val
            /\ (/\ option.isActive
                /\ now >= option.expiresAt
                /\ inTheMoney.err = "" /\ inTheMoney.val
                /\ predicate.err = "" /\ predicate.val)
                  => /\ StatusOf(id).err = ""
                     /\ StatusOf(id).val.canExecute
                     /\ canExecuteOption(id) = Ret(<<FALSE, "Option expired">>)

\* C31 witness: an active position at its expiry, in the money with a clear
\* stop-loss at a price just published: the adapter says canExecute, the
\* orchestrator says "Option expired".
C31_Witness ==
    \E id \in Ids :
        /\ ProtectedOption(id).isActive
        /\ now >= ProtectedOption(id).expiresAt
        /\ oracleUpdatedAt = now
        /\ StatusOf(id).err = ""
        /\ StatusOf(id).val.canExecute
        /\ StatusOf(id).val.stopLossStatus
        /\ canExecuteOption(id) = Ret(<<FALSE, "Option expired">>)


\* C32 (as claimed): getTakingAmount is the truncating inverse of
\* getMakingAmount.  On an active, unexpired config with a fresh price and for
\* every makingAmount m, an authorized getTakingAmount(id, m) returns
\* floor(m * strikePrice * 100 / (intrinsicValue * multiplier)) when the option
\* is in the money, and then getMakingAmount(id, getTakingAmount(id, m)) <= m;
\* otherwise it returns floor(m * 1e18 / premium), for every configured
\* premium.
C32_TakingAmountInverse ==
    \A id \in KnownOptionIds, m \in QuoteMakingAmounts,
       c \in AuthorizedCalcCallers :
        (/\ OptionConfig(id).isActive
         /\ now < OptionConfig(id).expiration
         /\ FreshForValuation)
           => /\ getTakingAmount(c, id, m).err = ""
              /\ IF IntrinsicOf(id) > MIN_INTRINSIC_VALUE
                 THEN /\ IsFloor(getTakingAmount(c, id, m).val,
                                 m * OptionConfig(id).strikePrice * 100,
                                 IntrinsicOf(id) * OptionConfig(id).multiplier)
                      /\ getMakingAmount(c, id,
                                         getTakingAmount(c, id, m).val).err = ""
                      /\ getMakingAmount(c, id,
                                         getTakingAmount(c, id, m).val).val <= m
                 ELSE IsFloor(getTakingAmount(c, id, m).val, m * WAD,
                              OptionConfig(id).premium)


(***************************************************************************)
(* The dynamic stop-loss price.                                            *)
(***************************************************************************)
\* Loss limits from the smallest to the largest accepted one, and one above
\* it; entry prices whose loss is truncated, and the price 0.
DynamicMaxLosses == {1, BaseArgs.maxLoss, MAX_LOSS_BP, MAX_LOSS_BP + 1}
DynamicEntryPrices == {0, 1, 3, 200000}

ConfigureDynamicStopLoss ==
    \E maxLoss \in DynamicMaxLosses, isLowerBound \in BOOLEAN :
        configureStopLoss(OWNER, DirectStopLossId, BaseArgs.stopLossPrice,
                          maxLoss, DEFAULT_TIME_WINDOW, ORACLE, isLowerBound)

\* The stop-loss engine with configs of several loss limits.
NextDynamic ==
    \/ ConfigureDynamicStopLoss \/ DeactivateStopLoss \/ SetLatestPrice
    \/ IncreaseTime
SpecDynamic == Init /\ [][NextDynamic]_vars

\* C33: calculateDynamicStopLoss(id, entryPrice), from any caller, fails with
\* StopLossNotActive on an inactive config; on an active config it returns
\* entryPrice - floor(entryPrice * maxLoss / 10000) for a lower bound and
\* entryPrice + floor(entryPrice * maxLoss / 10000) for an upper bound,
\* whatever the state of the feed (stale, or with a price of 0); the
\* subtraction never underflows, every recorded maxLoss being at most 9000.
C33_DynamicStopLoss ==
    \A c \in EngineCallers, id \in {DirectStopLossId, StopLossIdOf(UnknownId)},
       e \in DynamicEntryPrices :
        LET config == StopLossConfig(id)
            r == calculateDynamicStopLoss(c, id, e)
        IN  IF ~config.isActive THEN r = Revert("StopLossNotActive")
            ELSE /\ config.maxLoss <= MAX_LOSS_BP
                 /\ r.err = ""
                 /\ r.val >= 0
                 /\ IF config.isLowerBound
                    THEN IsFloor(e - r.val, e * config.maxLoss, BASIS_POINTS)
                    ELSE IsFloor(r.val - e, e * config.maxLoss, BASIS_POINTS)

\* C33 witness: an upper bound with the largest loss limit, while the feed is
\* stale for the stop-loss engine: an entry price of 200000 gives 380000 and
\* an entry price of 3 gives 5.
C33_Witness ==
    /\ DirectStopLossId \in ActiveStopLossIds
    /\ ~stopLossConfigs[DirectStopLossId].isLowerBound
    /\ stopLossConfigs[DirectStopLossId].maxLoss = MAX_LOSS_BP
    /\ now - oracleUpdatedAt > SL_MAX_PRICE_AGE
    /\ stopLossPredicate(DirectStopLossId) = Revert("StalePrice")
    /\ calculateDynamicStopLoss("bob", DirectStopLossId, 200000) = Ret(380000)
    /\ calculateDynamicStopLoss("bob", DirectStopLossId, 3) = Ret(5)


\* s is a prefix of t.
IsPrefix(s, t) == Len(s) <= Len(t) /\ SubSeq(t, 1, Len(s)) = s

ExpectedReason(id) ==
    IF Expired(id) THEN "expired"
    ELSE IF StopLossIsTriggered(id) THEN "stop-loss"
    ELSE "cancelled"

\* C35: the reason emitted by a successful cancelProtectedOption is "expired"
\* whenever now >= expiresAt, otherwise "stop-loss" whenever the stop-loss is
\* triggered, and "cancelled" otherwise, whoever the caller is; a cancellation
\* with the reason "cancelled" is one by the maker, no other caller being
\* accepted in that state.  Exactly the cancelled positions have an event.
C35_CancelReason ==
    /\ [](\A id \in Ids : Cancelled(id) <=> id \in DOMAIN cancelledEvents)
    /\ [][\A id \in Ids :
            (Active(id) /\ Cancelled(id)') =>
                /\ id \in DOMAIN cancelledEvents'
                /\ cancelledEvents'[id] = ExpectedReason(id)
                /\ \A sender \in Users :
                      (cancelProtectedOptionErr(sender, id) = ""
                       /\ ExpectedReason(id) = "cancelled")
                         => sender = ProtectedOption(id).maker
         ]_vars

\* C35 witness: one position was cancelled for its stop-loss before its
\* expiry, and another one for its expiry, at a fresh price at which its
\* stop-loss threshold was reached too.
C35_Witness ==
    \E id1, id2 \in DOMAIN cancelledEvents :
        /\ cancelledEvents[id1] = "stop-loss"
        /\ cancelledEvents[id2] = "expired"
        /\ now = ProtectedOption(id2).expiresAt
        /\ FreshForStopLoss
        /\ IF ProtectedOption(id2).isCall
           THEN oraclePrice <= StopLossConfig(ProtectedOption(id2).stopLossId).stopLossPrice
           ELSE oraclePrice >= StopLossConfig(ProtectedOption(id2).stopLossId).stopLossPrice


\* C36: identifiers are fresh.  protectedOptionCounter counts the successful
\* creates: a step either leaves it and the set of recorded ids alone, or
\* raises it by exactly 1 while recording one id that was not recorded before
\* and leaving every earlier position as it was.  Hence as many positions are
\* recorded as creates succeeded, and no two positions share an optionId or
\* a stopLossId.
C36_FreshIdentifiers ==
    /\ [](/\ Cardinality(Ids) = protectedOptionCounter
          /\ \A id1, id2 \in Ids :
                id1 # id2 =>
                   /\ ProtectedOption(id1).optionId # ProtectedOption(id2).optionId
                   /\ ProtectedOption(id1).stopLossId
                        # ProtectedOption(id2).stopLossId)
    /\ [][\/ /\ protectedOptionCounter' = protectedOptionCounter
             /\ DOMAIN protectedOptions' = Ids
          \/ /\ protectedOptionCounter' = protectedOptionCounter + 1
             /\ \E id \in DOMAIN protectedOptions' :
                   /\ id \notin Ids
                   /\ DOMAIN protectedOptions' = Ids \cup {id}
                   /\ protectedOptions'[id].isActive
                   /\ balances'[protectedOptions'[id].makerAsset][MANAGER]
                        = balances[protectedOptions'[id].makerAsset][MANAGER]
                            + protectedOptions'[id].makingAmount
             /\ \A old \in Ids : protectedOptions'[old] = protectedOptions[old]
         ]_vars

\* C36 witness: the same maker created two positions at the same timestamp;
\* they have different ids and the counter is 2.
C36_Witness ==
    \E id1, id2 \in Ids :
        /\ id1 # id2
        /\ ProtectedOption(id1).maker = ProtectedOption(id2).maker
        /\ ProtectedOption(id1).createdAt = ProtectedOption(id2).createdAt
        /\ protectedOptionCounter = 2


\* C37 (as claimed): settlement releases each position's escrow in full.
\* Over create, execute and cancel, whenever no position with makerAsset A is
\* active, the orchestrator's balance of A is zero.
C37_SettlementReleasesEscrow ==
    \A token \in Tokens :
        (\A id \in Ids : ~(Active(id) /\ ProtectedOption(id).makerAsset = token))
          => balances[token][MANAGER] = 0


(***************************************************************************)
(* Small executions.                                                       *)
(***************************************************************************)
\* Positions whose minTakingAmount is a few base units, executed for a few
\* base units or for BaseArgs' amounts.
DustArgs ==
    {[BaseArgs EXCEPT !.minTakingAmount = 3],
     [BaseArgs EXCEPT !.minTakingAmount = 3, !.isCall = FALSE]}
DustTakingAmounts == QuoteTakingAmounts \cup TakingAmounts

CreateDust ==
    /\ protectedOptionCounter < MaxAdminPositions
    /\ \E sender \in Makers, a \in DustArgs : createProtectedOption(sender, a)
ExecuteDust ==
    \E sender \in Users, id \in Ids, t \in DustTakingAmounts :
        executeProtectedOption(sender, id, t)

\* The orchestrator with positions that accept small payments.
NextDust ==
    \/ CreateDust \/ ExecuteDust \/ Cancel \/ SetLatestPrice \/ AdvanceTime
SpecDust == Init /\ [][NextDust]_vars

\* C38 (as claimed): every successful executeProtectedOption pays the
\* executor a strictly positive amount of makerAsset: in a step that executes
\* a position, the orchestrator's balance of the position's makerAsset falls
\* and the amount paid, actualMakingAmount, is > 0 for every accepted
\* takingAmount >= minTakingAmount.
C38_ExecutePaysPositive ==
    [][\A id \in Ids :
         /\ (id \notin executedOptions /\ id \in executedOptions')
              => balances'[ProtectedOption(id).makerAsset][MANAGER]
                   < balances[ProtectedOption(id).makerAsset][MANAGER]
         /\ \A sender \in Users, t \in DustTakingAmounts :
              executeProtectedOptionErr(sender, id, t) = ""
                => actualMakingAmount(id, t) > 0
      ]_vars


\* C39: the orchestrator and the engines stay linked.  In every state reached
\* through create, execute and cancel, with price and time changes, each
\* active position has an active OptionConfig under its optionId, with
\* expiration = expiresAt and the position's isCall, and an active
\* StopLossConfig under its stopLossId, with isLowerBound = isCall.
C39_LinkedConfigs ==
    \A id \in Ids :
        protectedOptions[id].isActive =>
            LET option == protectedOptions[id]
            IN  /\ option.optionId \in DOMAIN optionConfigs
                /\ optionConfigs[option.optionId].isActive
                /\ optionConfigs[option.optionId].expiration = option.expiresAt
                /\ optionConfigs[option.optionId].isCall = option.isCall
                /\ option.stopLossId \in DOMAIN stopLossConfigs
                /\ stopLossConfigs[option.stopLossId].isActive
                /\ stopLossConfigs[option.stopLossId].isLowerBound = option.isCall

\* C39 witness: a put created after time 0 is active and linked, next to a
\* cancelled position whose configs were deactivated.
C39_Witness ==
    \E id1, id2 \in Ids :
        /\ Cancelled(id1)
        /\ ~OptionConfig(ProtectedOption(id1).optionId).isActive
        /\ ~StopLossConfig(ProtectedOption(id1).stopLossId).isActive
        /\ Active(id2)
        /\ ~ProtectedOption(id2).isCall
        /\ ProtectedOption(id2).createdAt > 0
        /\ OptionConfig(ProtectedOption(id2).optionId).expiration
             = ProtectedOption(id2).createdAt + MIN_OPTION_DURATION
        /\ ~StopLossConfig(ProtectedOption(id2).stopLossId).isLowerBound


\* C40: in every reachable state an executed position is inactive and a
\* cancelled position is not executed.  Hence no state has a position that is
\* active, unexpired and executed: canExecuteOption never returns "Already
\* executed", and the executedOptions check of executeProtectedOption is
\* never the one that fails.
C40_ExecutedImpliesInactive ==
    /\ executedOptions \subseteq Ids
    /\ \A id \in Ids :
          /\ id \in executedOptions => ~protectedOptions[id].isActive
          /\ id \in DOMAIN cancelledEvents => id \notin executedOptions
          /\ ~(/\ protectedOptions[id].isActive
               /\ now < protectedOptions[id].expiresAt
               /\ id \in executedOptions)
    /\ \A id \in AllIds :
          /\ canExecuteOption(id).err = ""
               => canExecuteOption(id).val[2] # "Already executed"
          /\ id \in executedOptions
               => \A sender \in Users, t \in AllTakingAmounts :
                     executeProtectedOptionErr(sender, id, t) = "OptionNotActive"

\* C40 witness: one position was executed and another cancelled; both are
\* inactive, and canExecuteOption answers "Option not active" for the
\* executed one before its expiry.
C40_Witness ==
    \E id1, id2 \in Ids :
        /\ id1 \in executedOptions
        /\ id2 \in DOMAIN cancelledEvents
        /\ ~protectedOptions[id1].isActive
        /\ ~protectedOptions[id2].isActive
        /\ now < protectedOptions[id1].expiresAt
        /\ canExecuteOption(id1) = Ret(<<FALSE, "Option not active">>)


====
